---- MODULE Spec2Model ----
(***************************************************************************)
(* State-machine model of the UI bug scanner: the batch scheduler of       *)
(* Scanner.scan / Scanner.scanPage, the breadth-first crawler BfsCrawler,  *)
(* the sitemap crawler SitemapCrawler, URL discovery and job generation    *)
(* of Scanner.scan, the cluster engine (generateSignature,                 *)
(* deduplicateFindings, getTopFindings), the screenshot file names of the  *)
(* EvidenceCollector, and scanWebsite in crawl mode bfs, which drives the  *)
(* crawler from the scan input.  Each component has its own                *)
(* specification, in which the other components stay idle.  Strings are    *)
(* modelled as sequences of tokens, so that startsWith / endsWith / slice  *)
(* / includes / replace are computed, not assumed.                         *)
(***************************************************************************)
EXTENDS Integers, Sequences, FiniteSets, TLC

VARIABLES
  \* ---- Scanner.scan / Scanner.scanPage ----
  concurrency,   \* this.options.concurrency (0 models a falsy value)
  jobs,          \* the job list of scan(): sequence of [url, viewport]
  scanPc,        \* position of scan(): "loop", "await", "done", "failed"
  batchIdx,      \* loop variable i of the batch loop, 1-based
  jobPc,         \* per job: position of its scanPage() call
  ctx,           \* per job: state of the browsing context it created
  closeCalls,    \* per job: number of context.close() calls it made
  jobError,      \* per job: local variable error of scanPage
  jobFindings,   \* per job: local array findings of scanPage
  threw,         \* per job: TRUE once any step of the job has thrown
  allFindings,   \* scan(): allFindings
  errors,        \* scan(): errors
  browserOpen,   \* this.browser is launched and not closed
  summary,       \* result.summary of scan(), once it has returned
  exitCode,      \* exit code of the command-line run, once it has exited
  overtaken,     \* a promise of the running batch settled before the promise
                 \* of a job with a lower index
  \* ---- BfsCrawler ----
  options,          \* this.options of the crawler
  visited,          \* this.visited (normalized keys)
  disallowedPaths,  \* this.disallowedPaths
  bfsPc,            \* "idle", "loop", "loading", "returned"
  startUrl,         \* argument of the running crawl()
  queue,            \* local queue of crawl()
  discoveredUrls,   \* local discoveredUrls of crawl()
  pageVisited,      \* the onPageVisited(url, depth) calls of this crawl
  loaded,           \* the page loads of this crawl: [url, depth, ok]
  cur,              \* the item whose page is being loaded
  crawls,           \* number of crawl() calls started on this instance
  robotsTxt,        \* the robots.txt body that the running crawl() fetched
  \* ---- SitemapCrawler ----
  smOptions,     \* this.options of the sitemap crawler
  baseUrl,       \* argument of discover()
  smPc,          \* "idle", "fetch", "robots", "done"
  smLoc,         \* 1..4: index into commonLocations, 5: robots.txt,
                 \* 6: the sitemap declared by robots.txt
  smStack,       \* the pending parseSitemap calls on sitemap indexes
  smRedirects,   \* redirects followed by the pending fetchUrl call
  smRaw,         \* argument of the filterUrls call that made the result
  smSource,      \* where the result comes from
  smResult,      \* what discover() returned
  smIndexEnd,    \* the outermost index loop of the crawl() that made the
                 \* result: its children, the child it ended at, its urls
  \* ---- Scanner.scan: URL discovery and job generation ----
  input,         \* the ScanInput
  planUrls,      \* urls of scan(): what discoverUrls returned
  jobList,       \* the jobs generated from urls and viewports
  planPc,        \* "start", "rules", "failed", "discovered", "generated",
                 \* "analyzed"
  ruleset,       \* this.ruleset of the SpecAnalyzer
  planErrors,    \* the ScanErrors that the spec analysis of the jobs causes
  \* ---- deduplicateFindings, getTopFindings ----
  findings,      \* the findings array handed to the functions
  clusters,      \* result of deduplicateFindings(findings)
  limit,         \* argument limit of getTopFindings
  top,           \* result of getTopFindings(findings, limit)
  ddPc,          \* "start", then the set of functions applied
  attempted,     \* scanPage: the findings whose element screenshot is attempted
  \* ---- EvidenceCollector, shared by the jobs of a batch ----
  screenshotIndex,  \* this.screenshotIndex
  shotPc,           \* per job: position in its screenshot captures
  shotK,            \* per job: number of findings whose capture is over
  shotName,         \* per job: the file name of its pending capture
  issued,           \* the captures that were given a file name: [name, job, n]
  written,          \* the captures whose file was written
  \* ---- scanWebsite(input) in crawl mode bfs, up to the first batch ----
  swInput,       \* the ScanInput; an optional number is <<>> or <<n>>
  swPc,          \* "start", "seeds", "discovered", "generated"
  swSeed,        \* discoverUrls: index of the next start URL
  swUrls,        \* discoverUrls: urls, then the list it returns
  swJobs,        \* scan(): jobs
  swBatch        \* scan(): the first batch, jobs.slice(0, batchSize)

scanVars == <<concurrency, jobs, scanPc, batchIdx, jobPc, ctx, closeCalls,
              jobError, jobFindings, threw, allFindings, errors, browserOpen,
              summary, exitCode, overtaken>>
bfsVars == <<options, visited, disallowedPaths, bfsPc, startUrl, queue,
             discoveredUrls, pageVisited, loaded, cur, crawls, robotsTxt>>
smVars == <<smOptions, baseUrl, smPc, smLoc, smStack, smRedirects, smRaw,
            smSource, smResult, smIndexEnd>>
planVars == <<input, planUrls, jobList, planPc, ruleset, planErrors>>
ddVars == <<findings, clusters, limit, top, ddPc, attempted>>
evVars == <<screenshotIndex, shotPc, shotK, shotName, issued, written>>
swVars == <<swInput, swPc, swSeed, swUrls, swJobs, swBatch>>
vars == <<scanVars, bfsVars, smVars, planVars, ddVars, evVars, swVars>>

\* the variables of the other components, which a step leaves alone
notScanVars == <<bfsVars, smVars, planVars, ddVars, evVars, swVars>>
notBfsVars == <<scanVars, smVars, planVars, ddVars, evVars, swVars>>
notSmVars == <<scanVars, bfsVars, planVars, ddVars, evVars, swVars>>
notPlanVars == <<scanVars, bfsVars, smVars, ddVars, evVars, swVars>>
notDdVars == <<scanVars, bfsVars, smVars, planVars, evVars, swVars>>
notEvVars == <<scanVars, bfsVars, smVars, planVars, ddVars, swVars>>

\* what the crawl of the start URLs of a scan leaves alone
notSwBfsVars == <<scanVars, smVars, planVars, ddVars, evVars>>

----------------------------------------------------------------------------
(* Generic string helpers on token sequences *)

StartsWith(s, p) == Len(p) <= Len(s) /\ SubSeq(s, 1, Len(p)) = p

EndsWith(s, p) == Len(p) <= Len(s) /\ SubSeq(s, Len(s) - Len(p) + 1, Len(s)) = p

Includes(s, p) == \E i \in 0..(Len(s) - Len(p)) : SubSeq(s, i + 1, i + Len(p)) = p

Min(a, b) == IF a < b THEN a ELSE b

\* A parsed URL: hostname, pathname and the list of query pairs <<name, value>>
Url(h, p, q) == [host |-> h, path |-> p, query |-> q]

NoUrl == Url(<<>>, <<>>, <<>>)

\* a robots.txt fetch without a body: a status that is not ok, or an error
NotOk == <<[field |-> "not-ok", value |-> <<>>]>>

\* an optional value that is absent
Undefined == "<undefined>"
NoItem == [url |-> NoUrl, depth |-> 0]

\* no index loop has ended
NoIndex == [n |-> 0, k |-> 0, urls |-> <<>>]

\* no SitemapCrawler in use
SmIdle ==
  /\ smOptions = [maxUrls |-> 0, allowDomains |-> <<>>, denyPatterns |-> <<>>]
  /\ baseUrl = NoUrl
  /\ smPc = "idle"
  /\ smLoc = 0
  /\ smStack = <<>>
  /\ smRedirects = 0
  /\ smRaw = <<>>
  /\ smSource = "none"
  /\ smResult = <<>>
  /\ smIndexEnd = NoIndex

\* no URL discovery or job generation under way
PlanIdle ==
  /\ input = [startUrls |-> <<>>, maxPages |-> 0, viewports |-> <<>>,
               customSpecs |-> Undefined]
  /\ ruleset = "none"
  /\ planUrls = <<>>
  /\ planErrors = <<>>
  /\ jobList = <<>>
  /\ planPc = "start"

\* no findings being reduced
DdIdle ==
  /\ findings = <<>>
  /\ clusters = <<>>
  /\ limit = 0
  /\ top = <<>>
  /\ ddPc = "start"
  /\ attempted = <<>>

\* no screenshot taken, no job capturing
EvIdle ==
  /\ screenshotIndex = 0
  /\ shotPc = <<>>
  /\ shotK = <<>>
  /\ shotName = <<>>
  /\ issued = {}
  /\ written = {}

\* an optional number that is not given
NotGiven == <<>>

\* no scanWebsite call under way
SwIdle ==
  /\ swInput = [startUrls |-> <<>>, maxPages |-> NotGiven, maxDepth |-> NotGiven,
                concurrency |-> NotGiven]
  /\ swPc = "start"
  /\ swSeed = 1
  /\ swUrls = <<>>
  /\ swJobs = <<>>
  /\ swBatch = <<>>

Max(a, b) == IF a > b THEN a ELSE b

\* s.slice(0, n)
Slice(s, n) == IF n >= 0 THEN SubSeq(s, 1, Min(n, Len(s)))
               ELSE SubSeq(s, 1, Max(Len(s) + n, 0))

\* [...new Set(s)]: the first occurrences, in order
RECURSIVE NewSet(_)
NewSet(s) ==
  IF s = <<>> THEN <<>>
  ELSE LET r == NewSet(SubSeq(s, 1, Len(s) - 1))
       IN IF \E i \in DOMAIN r : r[i] = s[Len(s)] THEN r ELSE Append(r, s[Len(s)])

SeqsUpTo(S, n) == UNION {[1..k -> S] : k \in 0..n}

HostA == <<"a", ".", "com">>
HostB == <<"b", ".", "com">>

----------------------------------------------------------------------------
(* Findings: generateSignature, deduplicateFindings, getTopFindings.       *)
(* A string is a sequence of characters; a token of several characters     *)
(* stands for a run of characters that starts with a letter other than     *)
(* a..f, so that it is neither a digit nor the start of a hex run.         *)

MaxFindings == 3
MaxLimit == 3

\* getTopFindings(dedupedFindings, 10)
ScanTopLimit == 10

Digits == {"0", "1", "2", "3", "4", "5", "6", "7", "8", "9"}
HexChars == Digits \cup {"a", "b", "c", "d", "e", "f", "A", "B", "C", "D", "E", "F"}

\* length of the longest prefix of s made of characters of S
RECURSIVE LeadingRun(_, _)
LeadingRun(s, S) ==
  IF s = <<>> \/ Head(s) \notin S THEN 0 ELSE 1 + LeadingRun(Tail(s), S)

KeepNumeric(s) == s

\* .replace(/\/\d+/g, '/:id')
RECURSIVE ReplaceNumeric(_)
ReplaceNumeric(s) ==
  IF s = <<>> THEN <<>>
  ELSE LET n == LeadingRun(Tail(s), Digits)
       IN IF Head(s) = "/" /\ n >= 1
          THEN <<"/", ":", "i", "d">> \o ReplaceNumeric(SubSeq(s, n + 2, Len(s)))
          ELSE <<Head(s)>> \o ReplaceNumeric(Tail(s))

\* .replace(/\/[a-f0-9]{8,}/gi, '/:hash')
RECURSIVE ReplaceHash(_)
ReplaceHash(s) ==
  IF s = <<>> THEN <<>>
  ELSE LET n == LeadingRun(Tail(s), HexChars)
       IN IF Head(s) = "/" /\ n >= 8
          THEN <<"/", ":", "h", "a", "s", "h">> \o ReplaceHash(SubSeq(s, n + 2, Len(s)))
          ELSE <<Head(s)>> \o ReplaceHash(Tail(s))

\* a parsed page URL: hostname and pathname
PageUrl(h, p) == [host |-> h, pathname |-> p]

Finding(id, ruleId, tool, severity, confidence, pageUrl, viewport, selectors) ==
  [id |-> <<id>>, ruleId |-> ruleId, tool |-> tool, severity |-> severity,
   confidence |-> confidence, pageUrl |-> pageUrl, viewport |-> viewport,
   selectors |-> selectors]

\* extractUrlPattern(url); every pageUrl is the URL of a loaded page, so
\* new URL(url) does not throw
extractUrlPattern(url) == url.host \o ReplaceHash(ReplaceNumeric(url.pathname))

\* the pieces of a selector: literal text, :nth-child(text), :nth-of-type(text),
\* #text (an id), [text]
Tok(kind, text) == [kind |-> kind, text |-> text]

AllDigits(text) == text # <<>> /\ LeadingRun(text, Digits) = Len(text)

HasDigit(text) == \E i \in DOMAIN text : text[i] \in Digits

\* the four replacements of generateSignature on one piece of the selector
NormalizeToken(t) ==
  CASE t.kind = "nth-child" ->
         IF AllDigits(t.text) THEN <<>> ELSE <<":nth-child(">> \o t.text \o <<")">>
    [] t.kind = "nth-of-type" ->
         IF AllDigits(t.text) THEN <<>> ELSE <<":nth-of-type(">> \o t.text \o <<")">>
    [] t.kind = "id" ->
         IF HasDigit(t.text) THEN <<"[dynamic-id]">> ELSE <<"#">> \o t.text
    [] t.kind = "index" ->
         IF AllDigits(t.text) THEN <<"[n]">> ELSE <<"[">> \o t.text \o <<"]">>
    [] OTHER -> t.text

RECURSIVE NormalizeTokens(_)
NormalizeTokens(sel) ==
  IF sel = <<>> THEN <<>> ELSE NormalizeToken(Head(sel)) \o NormalizeTokens(Tail(sel))

\* String.prototype.trim
RECURSIVE Trim(_)
Trim(str) ==
  IF str = <<>> THEN <<>>
  ELSE IF Head(str) = " " THEN Trim(Tail(str))
  ELSE IF str[Len(str)] = " " THEN Trim(SubSeq(str, 1, Len(str) - 1))
  ELSE str

\* finding.evidence.selectors[0]?.replace(...)....trim() || 'unknown'
NormalizedSelector(f) ==
  IF f.selectors = <<>> THEN <<"unknown">>
  ELSE LET trimmed == Trim(NormalizeTokens(f.selectors[1]))
       IN IF trimmed = <<>> THEN <<"unknown">> ELSE trimmed

\* finding.ruleId || finding.tool || 'unknown'
RuleOrTool(f) == IF f.ruleId # "" THEN f.ruleId
                 ELSE IF f.tool # "" THEN f.tool ELSE "unknown"

\* the md5 digest of a string, taken as collision-free
Md5Hex(str) == [md5 |-> str]

\* generateSignature(finding)
generateSignature(f) ==
  Md5Hex(<<RuleOrTool(f), "|">> \o NormalizedSelector(f) \o <<"|", f.viewport, "|">>
         \o extractUrlPattern(f.pageUrl))

AddAsNewCluster(map, f) ==
  Append(map, [signature |-> generateSignature(f), group |-> <<f>>])

\* clusters.get(signature) || []; existing.push(finding); clusters.set(...):
\* the Map as the list of its entries in insertion order
AddToClusters(map, f) ==
  LET signature == generateSignature(f)
  IN IF \E i \in DOMAIN map : map[i].signature = signature
     THEN [i \in DOMAIN map |->
             IF map[i].signature = signature
             THEN [signature |-> signature, group |-> Append(map[i].group, f)]
             ELSE map[i]]
     ELSE Append(map, [signature |-> signature, group |-> <<f>>])

RECURSIVE GroupBySignature(_, _)
GroupBySignature(map, fs) ==
  IF fs = <<>> THEN map ELSE GroupBySignature(AddToClusters(map, Head(fs)), Tail(fs))

LastOfGroup(group) == group[Len(group)]

\* const representative = group[0]
Representative(group) == group[1]

PagesOfGroup(group) == NewSet([i \in DOMAIN group |-> group[i].pageUrl])

CountPages(group) == Len(PagesOfGroup(group))

\* occurrenceCount: group.length
OccurrenceCount(group) == Len(group)

\* { ...representative, affectedPages, occurrenceCount, representativeUrl, id }
MakeCluster(group) ==
  LET representative == Representative(group)
  IN [id |-> <<"clustered-">> \o representative.id,
      affectedPages |-> PagesOfGroup(group),
      occurrenceCount |-> OccurrenceCount(group),
      representativeUrl |-> representative.pageUrl]
     @@ representative

severityOrder(sev) ==
  CASE sev = "critical" -> 0 [] sev = "high" -> 1 [] sev = "medium" -> 2
    [] sev = "low" -> 3 [] sev = "info" -> 4

confidenceOrder(c) ==
  CASE c = "certain" -> 0 [] c = "likely" -> 1 [] c = "needs_review" -> 2

ClusterCompareAscending(a, b) ==
  LET severityDiff == severityOrder(a.severity) - severityOrder(b.severity)
  IN IF severityDiff # 0 THEN severityDiff ELSE a.occurrenceCount - b.occurrenceCount

\* the comparator of result.sort in deduplicateFindings
ClusterCompare(a, b) ==
  LET severityDiff == severityOrder(a.severity) - severityOrder(b.severity)
  IN IF severityDiff # 0 THEN severityDiff ELSE b.occurrenceCount - a.occurrenceCount

SeverityOnlyCompare(a, b) == severityOrder(a.severity) - severityOrder(b.severity)

\* the comparator of the sort in getTopFindings
FindingCompare(a, b) ==
  LET severityDiff == severityOrder(a.severity) - severityOrder(b.severity)
  IN IF severityDiff # 0 THEN severityDiff
     ELSE confidenceOrder(a.confidence) - confidenceOrder(b.confidence)

\* Array.prototype.sort is stable: x goes after the elements not greater
RECURSIVE InsertCluster(_, _)
InsertCluster(sorted, x) ==
  IF sorted = <<>> THEN <<x>>
  ELSE IF ClusterCompare(x, Head(sorted)) < 0 THEN <<x>> \o sorted
  ELSE <<Head(sorted)>> \o InsertCluster(Tail(sorted), x)

RECURSIVE SortClusters(_)
SortClusters(cs) ==
  IF cs = <<>> THEN <<>>
  ELSE InsertCluster(SortClusters(SubSeq(cs, 1, Len(cs) - 1)), cs[Len(cs)])

RECURSIVE InsertFinding(_, _)
InsertFinding(sorted, x) ==
  IF sorted = <<>> THEN <<x>>
  ELSE IF FindingCompare(x, Head(sorted)) < 0 THEN <<x>> \o sorted
  ELSE <<Head(sorted)>> \o InsertFinding(Tail(sorted), x)

RECURSIVE SortFindings(_)
SortFindings(fs) ==
  IF fs = <<>> THEN <<>>
  ELSE InsertFinding(SortFindings(SubSeq(fs, 1, Len(fs) - 1)), fs[Len(fs)])

\* deduplicateFindings(findings)
deduplicateFindings(fs) ==
  LET map == GroupBySignature(<<>>, fs)
  IN SortClusters([i \in DOMAIN map |-> MakeCluster(map[i].group)])

\* getTopFindings(findings, limit): [...findings].sort(...).slice(0, limit)
getTopFindings(fs, n) == Slice(SortFindings(fs), n)

----------------------------------------------------------------------------
(* Scanner.scan and Scanner.scanPage *)

MaxJobs == 4
MaxConcurrency == 2
DefaultConcurrency == 3

ScanUrls == <<PageUrl(HostA, <<"/">>),
              PageUrl(HostA, <<"/", "product", "/", "1">>),
              PageUrl(HostA, <<"/", "product", "/", "2">>),
              PageUrl(HostA, <<"/", "pricing">>),
              PageUrl(HostA, <<"/", "login">>),
              PageUrl(HostA, <<"/", "help">>)>>
ViewportLists == {<<"desktop">>, <<"desktop", "mobile">>}

\* error: string | undefined; a thrown value's message may be the empty string
ErrorMessages == {"", "Timeout 30000ms exceeded"}

\* the steps of scanPage's try block, in order
TrySteps == <<"auth", "goto", "stability", "interact", "screenshot",
              "analyze", "elementShots">>

StepIndex(s) == CHOOSE i \in DOMAIN TrySteps : TrySteps[i] = s

NextStep(s) == IF StepIndex(s) = Len(TrySteps) THEN "close"
               ELSE TrySteps[StepIndex(s) + 1]

InTry(j) == \E i \in DOMAIN TrySteps : TrySteps[i] = jobPc[j]

\* for (const viewport of viewports) jobs.push({ url, viewport })
RECURSIVE PushViewports(_, _, _)
PushViewports(pushed, url, viewports) ==
  IF viewports = <<>> THEN pushed
  ELSE PushViewports(Append(pushed, [url |-> url, viewport |-> Head(viewports)]),
                     url, Tail(viewports))

\* for (const url of urls) for (const viewport of viewports) ...
RECURSIVE PushUrls(_, _, _)
PushUrls(pushed, urls, viewports) ==
  IF urls = <<>> THEN pushed
  ELSE PushUrls(PushViewports(pushed, Head(urls), viewports), Tail(urls), viewports)

RECURSIVE ViewportMajor(_, _)
ViewportMajor(urls, viewports) ==
  IF viewports = <<>> THEN <<>>
  ELSE [i \in DOMAIN urls |-> [url |-> urls[i], viewport |-> Head(viewports)]]
       \o ViewportMajor(urls, Tail(viewports))

\* the job list of scan()
JobMatrix(urls, viewports) == PushUrls(<<>>, urls, viewports)

\* what the three analyzers return for a job (fixed per job)
AnalyzerFindings(job) ==
  IF job.viewport = "mobile"
  THEN <<Finding("a11y-1", "image-alt", "axe", "high", "certain", job.url,
                 job.viewport, <<<<Tok("text", <<"img">>)>>>>),
         Finding("usability-1", "tap-target", "usability", "critical", "likely",
                 job.url, job.viewport, <<<<Tok("text", <<"button">>)>>>>)>>
  ELSE <<Finding("a11y-1", "image-alt", "axe", "high", "certain", job.url,
                 job.viewport, <<<<Tok("text", <<"img">>)>>>>)>>

Severities == {"critical", "high", "medium", "low", "info"}

\* no summary yet, no exit yet
NoSummary == [pagesScanned |-> 0, findings |-> [sev \in Severities |-> 0],
              errors |-> <<>>]
NoExit == -1

\* for (const finding of findings) findingsBySeverity[finding.severity]++
CountSeverity(fs, sev) == Cardinality({i \in DOMAIN fs : fs[i].severity = sev})

\* buildSummary(pagesScanned, ..., findings, ..., errors)
buildSummary(pagesScanned, fs, errs) ==
  [pagesScanned |-> pagesScanned,
   findings |-> [sev \in Severities |-> CountSeverity(fs, sev)],
   errors |-> errs]

ExitOnCriticalOrErrors(s) ==
  IF s.findings["critical"] > 0 \/ Len(s.errors) > 0 THEN 1 ELSE 0

\* if (result.summary.findings.critical > 0) process.exit(1); otherwise the
\* process ends with code 0
ExitCodeOf(s) == IF s.findings["critical"] > 0 THEN 1 ELSE 0

batchSizePlusOne == (IF concurrency = 0 THEN DefaultConcurrency ELSE concurrency) + 1

\* const batchSize = this.options.concurrency || 3
batchSize == IF concurrency = 0 THEN DefaultConcurrency ELSE concurrency

\* jobs.slice(i, i + batchSize), as the set of job indexes
Batch(i) == {j \in DOMAIN jobs : i <= j /\ j < i + batchSize}

BatchOf(j) == (j - 1) \div batchSize

PromiseRaceResolved(b) == \E j \in b : jobPc[j] = "resolved"

\* await Promise.all(...) resumes once every promise of the batch is fulfilled
PromiseAllResolved(b) == \A j \in b : jobPc[j] = "resolved"

\* Promise.all rejects as soon as one promise of the batch is rejected
PromiseAllRejected(b) == \E j \in b : jobPc[j] = "rejected"

Settled(j) == jobPc[j] \in {"resolved", "rejected"}

Truthy(e) == e # Undefined /\ e # ""

\* a scanner with no crawl in progress
BfsIdle ==
  /\ options = [maxPages |-> 0, maxDepth |-> 0, allowDomains |-> <<>>,
                denyPatterns |-> <<>>, respectRobotsTxt |-> TRUE,
                sameDomainOnly |-> TRUE]
  /\ visited = {}
  /\ disallowedPaths = {}
  /\ bfsPc = "idle"
  /\ startUrl = NoUrl
  /\ queue = <<>>
  /\ discoveredUrls = <<>>
  /\ pageVisited = <<>>
  /\ loaded = <<>>
  /\ cur = NoItem
  /\ crawls = 0
  /\ robotsTxt = NotOk

InitScan ==
  /\ concurrency \in 1..MaxConcurrency
  /\ \E n \in 0..Len(ScanUrls), vps \in ViewportLists :
       /\ n * Len(vps) <= MaxJobs
       /\ jobs = JobMatrix(SubSeq(ScanUrls, 1, n), vps)
  /\ scanPc = "loop"
  /\ batchIdx = 1
  /\ jobPc = [j \in DOMAIN jobs |-> "idle"]
  /\ ctx = [j \in DOMAIN jobs |-> "none"]
  /\ closeCalls = [j \in DOMAIN jobs |-> 0]
  /\ jobError = [j \in DOMAIN jobs |-> Undefined]
  /\ jobFindings = [j \in DOMAIN jobs |-> <<>>]
  /\ threw = [j \in DOMAIN jobs |-> FALSE]
  /\ allFindings = <<>>
  /\ errors = <<>>
  /\ browserOpen = TRUE
  /\ summary = NoSummary
  /\ exitCode = NoExit
  /\ overtaken = FALSE
  /\ BfsIdle
  /\ SmIdle
  /\ PlanIdle
  /\ DdIdle
  /\ EvIdle
  /\ SwIdle

scanLocals == <<concurrency, jobs>>

\* job j settles while a job before it in the batch array is still pending
OvertakesInBatch(j) ==
  \E i \in Batch(batchIdx) : i < j /\ ~Settled(i)
scanOut == <<summary, exitCode>>

\* urls of scan(): every URL has a job, in URL order
UrlsOfJobs == NewSet([j \in DOMAIN jobs |-> jobs[j].url])

\* batch.map((job) => this.scanPage(...)): every job of the batch runs up to
\* its first await, the pending newContext call
StartBatch ==
  /\ scanPc = "loop"
  /\ batchIdx <= Len(jobs)
  /\ jobPc' = [j \in DOMAIN jobs |->
                 IF j \in Batch(batchIdx) THEN "newContext" ELSE jobPc[j]]
  /\ scanPc' = "await"
  /\ overtaken' = FALSE
  /\ UNCHANGED <<notScanVars, scanLocals, scanOut, batchIdx, ctx, closeCalls, jobError, jobFindings,
                 threw, allFindings, errors, browserOpen>>

\* const context = await this.browser!.newContext(...)
NewContextOk(j) ==
  /\ jobPc[j] = "newContext"
  /\ browserOpen
  /\ ctx' = [ctx EXCEPT ![j] = "open"]
  /\ jobPc' = [jobPc EXCEPT ![j] = "newPage"]
  /\ UNCHANGED <<notScanVars, scanLocals, overtaken, scanOut, scanPc, batchIdx, closeCalls, jobError,
                 jobFindings, threw, allFindings, errors, browserOpen>>

\* newContext throws: outside the try block, scanPage's promise rejects
NewContextThrow(j) ==
  /\ jobPc[j] = "newContext"
  /\ jobPc' = [jobPc EXCEPT ![j] = "rejected"]
  /\ threw' = [threw EXCEPT ![j] = TRUE]
  /\ overtaken' = (overtaken \/ OvertakesInBatch(j))
  /\ UNCHANGED <<notScanVars, scanLocals, scanOut, scanPc, batchIdx, ctx, closeCalls, jobError,
                 jobFindings, allFindings, errors, browserOpen>>

\* const page = await context.newPage()
NewPageOk(j) ==
  /\ jobPc[j] = "newPage"
  /\ browserOpen
  /\ jobPc' = [jobPc EXCEPT ![j] = TrySteps[1]]
  /\ UNCHANGED <<notScanVars, scanLocals, overtaken, scanOut, scanPc, batchIdx, ctx, closeCalls, jobError,
                 jobFindings, threw, allFindings, errors, browserOpen>>

\* newPage throws: outside the try block, no finally runs, the promise rejects
NewPageThrow(j) ==
  /\ jobPc[j] = "newPage"
  /\ jobPc' = [jobPc EXCEPT ![j] = "rejected"]
  /\ threw' = [threw EXCEPT ![j] = TRUE]
  /\ overtaken' = (overtaken \/ OvertakesInBatch(j))
  /\ UNCHANGED <<notScanVars, scanLocals, scanOut, scanPc, batchIdx, ctx, closeCalls, jobError,
                 jobFindings, allFindings, errors, browserOpen>>

\* one awaited step of the try block completes
TryStepOk(j) ==
  /\ InTry(j)
  /\ browserOpen
  /\ jobFindings' = [jobFindings EXCEPT ![j] =
                       IF jobPc[j] = "analyze" THEN AnalyzerFindings(jobs[j]) ELSE @]
  /\ jobPc' = [jobPc EXCEPT ![j] = NextStep(@)]
  /\ UNCHANGED <<notScanVars, scanLocals, overtaken, scanOut, scanPc, batchIdx, ctx, closeCalls, jobError,
                 threw, allFindings, errors, browserOpen>>

\* catch (e) { error = e instanceof Error ? e.message : String(e) }
TryStepThrow(j, msg) ==
  /\ InTry(j)
  /\ jobError' = [jobError EXCEPT ![j] = msg]
  /\ threw' = [threw EXCEPT ![j] = TRUE]
  /\ jobPc' = [jobPc EXCEPT ![j] = "close"]
  /\ UNCHANGED <<notScanVars, scanLocals, overtaken, scanOut, scanPc, batchIdx, ctx, closeCalls, jobFindings,
                 allFindings, errors, browserOpen>>

\* finally { await context.close() }, then return the PageScanResult
CloseOk(j) ==
  /\ jobPc[j] = "close"
  /\ ctx' = [ctx EXCEPT ![j] = "closed"]
  /\ closeCalls' = [closeCalls EXCEPT ![j] = @ + 1]
  /\ jobPc' = [jobPc EXCEPT ![j] = "resolved"]
  /\ overtaken' = (overtaken \/ OvertakesInBatch(j))
  /\ UNCHANGED <<notScanVars, scanLocals, scanOut, scanPc, batchIdx, jobError, jobFindings, threw,
                 allFindings, errors, browserOpen>>

\* context.close() throws inside finally: the promise rejects
CloseThrow(j) ==
  /\ jobPc[j] = "close"
  /\ closeCalls' = [closeCalls EXCEPT ![j] = @ + 1]
  /\ \E c \in {ctx[j], "closed"} : ctx' = [ctx EXCEPT ![j] = c]
  /\ threw' = [threw EXCEPT ![j] = TRUE]
  /\ jobPc' = [jobPc EXCEPT ![j] = "rejected"]
  /\ overtaken' = (overtaken \/ OvertakesInBatch(j))
  /\ UNCHANGED <<notScanVars, scanLocals, scanOut, scanPc, batchIdx, jobError, jobFindings,
                 allFindings, errors, browserOpen>>

RECURSIVE CollectFindingsReversed(_, _)
CollectFindingsReversed(i, last) ==
  IF i > last THEN <<>>
  ELSE CollectFindingsReversed(i + 1, last)
       \o (IF Truthy(jobError[i]) THEN <<>> ELSE jobFindings[i])

RECURSIVE CollectErrors(_, _), CollectFindings(_, _)
\* for (const result of results): errors.push(...) when result.error is truthy
CollectErrors(i, last) ==
  IF i > last THEN <<>>
  ELSE (IF Truthy(jobError[i])
        THEN <<[pageUrl |-> jobs[i].url, viewport |-> jobs[i].viewport,
                error |-> jobError[i]]>>
        ELSE <<>>) \o CollectErrors(i + 1, last)

\* for (const result of results): allFindings.push(...result.findings) otherwise
CollectFindings(i, last) ==
  IF i > last THEN <<>>
  ELSE (IF Truthy(jobError[i]) THEN <<>> ELSE jobFindings[i])
       \o CollectFindings(i + 1, last)

\* Promise.all fulfilled: the result loop runs, then i += batchSize
CollectBatch ==
  /\ scanPc = "await"
  /\ PromiseAllResolved(Batch(batchIdx))
  /\ LET last == Min(batchIdx + batchSize - 1, Len(jobs))
     IN /\ errors' = errors \o CollectErrors(batchIdx, last)
        /\ allFindings' = allFindings \o CollectFindings(batchIdx, last)
  /\ batchIdx' = batchIdx + batchSize
  /\ scanPc' = "loop"
  /\ UNCHANGED <<notScanVars, scanLocals, overtaken, scanOut, jobPc, ctx, closeCalls, jobError, jobFindings,
                 threw, browserOpen>>

\* Promise.all rejected: scan() leaves through finally { browser.close() },
\* which closes every context of the browser, and rejects
ScanReject ==
  /\ scanPc = "await"
  /\ PromiseAllRejected(Batch(batchIdx))
  /\ scanPc' = "failed"
  /\ browserOpen' = FALSE
  /\ ctx' = [j \in DOMAIN jobs |-> IF ctx[j] = "open" THEN "closed" ELSE ctx[j]]
  /\ UNCHANGED <<notScanVars, scanLocals, overtaken, scanOut, batchIdx, jobPc, closeCalls, jobError, jobFindings,
                 threw, allFindings, errors>>

\* the batch loop ends; the findings are deduplicated and summarised, and
\* scan() returns through finally { browser.close() }
ScanFinish ==
  /\ scanPc = "loop"
  /\ batchIdx > Len(jobs)
  /\ summary' = buildSummary(Len(UrlsOfJobs), deduplicateFindings(allFindings), errors)
  /\ scanPc' = "done"
  /\ browserOpen' = FALSE
  /\ ctx' = [j \in DOMAIN jobs |-> IF ctx[j] = "open" THEN "closed" ELSE ctx[j]]
  /\ UNCHANGED <<notScanVars, scanLocals, overtaken, exitCode, batchIdx, jobPc, closeCalls,
                 jobError, jobFindings, threw, allFindings, errors>>

\* scanWebsite(input).then(result => ...): the run ends with the exit code
\* chosen from result.summary
CliThen ==
  /\ scanPc = "done"
  /\ exitCode = NoExit
  /\ exitCode' = ExitCodeOf(summary)
  /\ UNCHANGED <<notScanVars, scanLocals, overtaken, summary, scanPc, batchIdx, jobPc, ctx,
                 closeCalls, jobError, jobFindings, threw, allFindings, errors,
                 browserOpen>>

\* .catch(error => { console.error(...); process.exit(1) })
CliCatch ==
  /\ scanPc = "failed"
  /\ exitCode = NoExit
  /\ exitCode' = 1
  /\ UNCHANGED <<notScanVars, scanLocals, overtaken, summary, scanPc, batchIdx, jobPc, ctx,
                 closeCalls, jobError, jobFindings, threw, allFindings, errors,
                 browserOpen>>

NextScan ==
  \/ StartBatch
  \/ \E j \in DOMAIN jobs : NewContextOk(j)
  \/ \E j \in DOMAIN jobs : NewContextThrow(j)
  \/ \E j \in DOMAIN jobs : NewPageOk(j)
  \/ \E j \in DOMAIN jobs : NewPageThrow(j)
  \/ \E j \in DOMAIN jobs : TryStepOk(j)
  \/ \E j \in DOMAIN jobs, msg \in ErrorMessages : TryStepThrow(j, msg)
  \/ \E j \in DOMAIN jobs : CloseOk(j)
  \/ \E j \in DOMAIN jobs : CloseThrow(j)
  \/ CollectBatch
  \/ ScanReject
  \/ ScanFinish
  \/ CliThen
  \/ CliCatch

----------------------------------------------------------------------------
(* BfsCrawler: URLs *)

MaxPagesBound == 4
MaxDepthBound == 2
MaxCrawls == 2

uRoot == Url(HostA, <<"/">>, <<>>)
uP    == Url(HostA, <<"/", "p">>, <<>>)
uPs   == Url(HostA, <<"/", "p", "/">>, <<>>)
uPss  == Url(HostA, <<"/", "p", "/", "/">>, <<>>)
uPref == Url(HostA, <<"/", "p">>, << <<"ref", "1">> >>)
uQ12  == Url(HostA, <<"/", "p">>, << <<"k", "1">>, <<"k", "2">> >>)
uQ21  == Url(HostA, <<"/", "p">>, << <<"k", "2">>, <<"k", "1">> >>)
uQab  == Url(HostA, <<"/", "p">>, << <<"a", "1">>, <<"b", "2">>, <<"utm_source", "n">> >>)
uQba  == Url(HostA, <<"/", "p">>, << <<"b", "2">>, <<"a", "1">> >>)
uX    == Url(HostA, <<"/", "x">>, <<>>)
uB    == Url(HostB, <<"/">>, <<>>)

Urls == {uRoot, uP, uPs, uPss, uPref, uQ12, uQ21, uQab, uQba, uX, uB}

Seeds == {uRoot, uX}

\* what page.evaluate returns in extractLinks: the resolved http(s) hrefs of
\* the anchors of the loaded page, in document order
Pages == { <<>>,
           <<uP, uPs, uB>>,
           <<uX>>,
           <<uPss, uPs, uRoot, uPref>>,
           <<uQ12, uQ21, uQ12>>,
           <<uQab, uQba>> }

\* code-unit order of the parameter names in use
NameRank(n) == CASE n = "a" -> 1 [] n = "b" -> 2 [] n = "k" -> 3
                 [] n = "ref" -> 4 [] n = "utm_source" -> 5 [] OTHER -> 6

\* parsed.search: "" for no pairs, else "?n=v&n=v..."
RECURSIVE Pairs(_)
Pairs(q) == IF q = <<>> THEN <<>>
            ELSE (IF Len(q) = 1 THEN <<q[1][1], "=", q[1][2]>>
                  ELSE <<q[1][1], "=", q[1][2], "&">>) \o Pairs(Tail(q))

Search(q) == IF q = <<>> THEN <<>> ELSE <<"?">> \o Pairs(q)

Origin(u) == <<"https://">> \o u.host

Href(u) == Origin(u) \o u.path \o Search(u.query)

\* const trackingParams = [...]
trackingParams == {"utm_source", "utm_medium", "utm_campaign", "ref", "fbclid"}

\* parsed.searchParams.delete(param) for each tracking param
DeleteTracking(q) == SelectSeq(q, LAMBDA p : p[1] \notin trackingParams)

\* parsed.searchParams.sort(): stable sort by name
RECURSIVE InsertParam(_, _)
InsertParam(sorted, p) ==
  IF sorted = <<>> THEN <<p>>
  ELSE IF NameRank(p[1]) < NameRank(Head(sorted)[1]) THEN <<p>> \o sorted
  ELSE <<Head(sorted)>> \o InsertParam(Tail(sorted), p)

RECURSIVE SortParams(_)
SortParams(q) == IF q = <<>> THEN <<>>
                 ELSE InsertParam(SortParams(SubSeq(q, 1, Len(q) - 1)), q[Len(q)])

normalizeUrlNoSort(u) ==
  LET path == IF EndsWith(u.path, <<"/">>) /\ Len(u.path) > 1
              THEN SubSeq(u.path, 1, Len(u.path) - 1) ELSE u.path
  IN Origin(u) \o path \o Search(DeleteTracking(u.query))

\* normalizeUrl: `${parsed.origin}${path}${parsed.search}` (every URL that
\* reaches it has been parsed before, so the catch branch is not taken)
normalizeUrl(u) ==
  LET path == IF EndsWith(u.path, <<"/">>) /\ Len(u.path) > 1
              THEN SubSeq(u.path, 1, Len(u.path) - 1) ELSE u.path
  IN Origin(u) \o path \o Search(SortParams(DeleteTracking(u.query)))

----------------------------------------------------------------------------
(* BfsCrawler: robots.txt and filters *)

Line(f, v) == [field |-> f, value |-> v]

\* the robots.txt bodies a site may answer with (NotOk: non-200 or fetch error)
RobotsResponses ==
  { NotOk,
    <<Line("user-agent", <<"*">>), Line("disallow", <<"/", "x">>)>>,
    <<Line("user-agent", <<"curl">>), Line("disallow", <<"/">>),
      Line("user-agent", <<"my", "bot">>), Line("disallow", <<"/", "p", "/", "*">>),
      Line("disallow", <<>>),
      Line("user-agent", <<"*">>), Line("user-agent", <<"curl">>),
      Line("disallow", <<"/", "x">>)>> }

\* the loop of fetchRobotsTxt over the lines, appliesToUs carried along
RECURSIVE ParseRobots(_, _)
ParseRobots(lines, appliesToUs) ==
  IF lines = <<>> THEN {}
  ELSE LET l == Head(lines)
           applies == IF l.field = "user-agent"
                      THEN l.value = <<"*">> \/ Includes(l.value, <<"bot">>)
                      ELSE appliesToUs
       IN (IF applies /\ l.field = "disallow" /\ l.value # <<>>
           THEN {l.value} ELSE {})
          \cup ParseRobots(Tail(lines), applies)

fetchRobotsTxt(response) ==
  IF response = NotOk THEN {} ELSE ParseRobots(response, FALSE)

\* isDisallowed(url)
isDisallowed(u) ==
  \E d \in disallowedPaths :
    IF EndsWith(d, <<"*">>)
    THEN StartsWith(u.path, SubSeq(d, 1, Len(d) - 1))
    ELSE StartsWith(u.path, d)

\* parsed.hostname === domain || parsed.hostname.endsWith(`.${domain}`)
HostMatches(h, domain) == h = domain \/ EndsWith(h, <<".">> \o domain)

InAllowDomains(u) ==
  \E i \in DOMAIN options.allowDomains : HostMatches(u.host, options.allowDomains[i])

\* new RegExp(pattern).test(url), for a pattern without metacharacters (for
\* an invalid pattern the code falls back to url.includes(pattern))
MatchesDeny(u) ==
  \E i \in DOMAIN options.denyPatterns : Includes(Href(u), options.denyPatterns[i])

\* isAllowed(url, baseDomain)
isAllowed(u, baseDomain) ==
  IF options.sameDomainOnly /\ u.host # baseDomain THEN FALSE
  ELSE IF Len(options.allowDomains) > 0 THEN InAllowDomains(u)
  ELSE IF Len(options.denyPatterns) > 0 THEN ~MatchesDeny(u)
  ELSE TRUE

\* the filter of extractLinks
LinkFilter(u, baseDomain) ==
  IF options.sameDomainOnly /\ u.host # baseDomain THEN FALSE
  ELSE IF Len(options.allowDomains) > 0 /\ ~InAllowDomains(u) THEN FALSE
  ELSE IF Len(options.denyPatterns) > 0 /\ MatchesDeny(u) THEN FALSE
  ELSE TRUE

extractLinks(raw, baseDomain) == SelectSeq(raw, LAMBDA u : LinkFilter(u, baseDomain))

----------------------------------------------------------------------------
(* BfsCrawler.crawl, BfsCrawler.reset *)

AllowDomainLists == {<<>>, <<HostA>>}
DenyPatternLists == {<<>>, << <<"/", "x">> >>}

\* a crawler used on its own, no scan running
ScanIdle ==
  /\ concurrency = 0
  /\ jobs = <<>>
  /\ scanPc = "loop"
  /\ batchIdx = 1
  /\ jobPc = <<>>
  /\ ctx = <<>>
  /\ closeCalls = <<>>
  /\ jobError = <<>>
  /\ jobFindings = <<>>
  /\ threw = <<>>
  /\ allFindings = <<>>
  /\ errors = <<>>
  /\ browserOpen = TRUE
  /\ summary = NoSummary
  /\ exitCode = NoExit
  /\ overtaken = FALSE

\* constructor: the options of the instance
InitBfs ==
  /\ options \in [maxPages : 0..MaxPagesBound,
                  maxDepth : 0..MaxDepthBound,
                  allowDomains : AllowDomainLists,
                  denyPatterns : DenyPatternLists,
                  respectRobotsTxt : BOOLEAN,
                  sameDomainOnly : BOOLEAN]
  /\ visited = {}
  /\ disallowedPaths = {}
  /\ bfsPc = "idle"
  /\ startUrl = NoUrl
  /\ queue = <<>>
  /\ discoveredUrls = <<>>
  /\ pageVisited = <<>>
  /\ loaded = <<>>
  /\ cur = NoItem
  /\ crawls = 0
  /\ robotsTxt = NotOk
  /\ ScanIdle
  /\ SmIdle
  /\ PlanIdle
  /\ DdIdle
  /\ EvIdle
  /\ SwIdle

startDomain == startUrl.host

\* while (queue.length > 0 && discoveredUrls.length < this.options.maxPages)
LoopCond == Len(queue) > 0 /\ Len(discoveredUrls) < options.maxPages

ReachedMaxPagesStrict(n) == n > options.maxPages

\* if (discoveredUrls.length >= this.options.maxPages) break
ReachedMaxPages(n) == n >= options.maxPages

\* if (item.depth > this.options.maxDepth) continue
BeyondMaxDepth(item) == item.depth > options.maxDepth

AtMaxDepthStrict(item) == item.depth > options.maxDepth

\* if (item.depth >= this.options.maxDepth) continue
AtMaxDepth(item) == item.depth >= options.maxDepth

Unshift(q, item) == <<item>> \o q

KeepHead(q) == q

\* queue.shift(): what is left of the queue
Shift(q) == Tail(q)

\* queue.push(item)
Push(q, item) == Append(q, item)

EnqueueLinksTwoDeeper(q, links, item) ==
  q \o [i \in DOMAIN links |-> [url |-> links[i], depth |-> item.depth + 2]]

\* for (const link of links) if (!this.visited.has(normalizeUrl(link))) queue.push(...)
RECURSIVE EnqueueLinks(_, _, _)
EnqueueLinks(q, links, item) ==
  IF links = <<>> THEN q
  ELSE EnqueueLinks(
         IF normalizeUrl(Head(links)) \notin visited
         THEN Push(q, [url |-> Head(links), depth |-> item.depth + 1])
         ELSE q,
         Tail(links), item)

bfsLocals == <<options, crawls, robotsTxt>>

\* crawl(startUrl, page) up to the loop: the queue is seeded, robots.txt fetched
CrawlStart(seed, robots) ==
  /\ bfsPc = "idle"
  /\ crawls < MaxCrawls
  /\ crawls' = crawls + 1
  /\ startUrl' = seed
  /\ queue' = <<[url |-> seed, depth |-> 0]>>
  /\ discoveredUrls' = <<>>
  /\ pageVisited' = <<>>
  /\ loaded' = <<>>
  /\ disallowedPaths' = IF options.respectRobotsTxt
                        THEN disallowedPaths \cup fetchRobotsTxt(robots)
                        ELSE disallowedPaths
  /\ robotsTxt' = IF options.respectRobotsTxt THEN robots ELSE NotOk
  /\ bfsPc' = "loop"
  /\ UNCHANGED <<notBfsVars, options, visited, cur>>

\* one iteration of the while loop, up to continue, break or the page load
LoopIter ==
  /\ bfsPc = "loop"
  /\ LoopCond
  /\ LET item == Head(queue)
         normalizedUrl == normalizeUrl(item.url)
     IN /\ queue' = Shift(queue)
        /\ IF \/ normalizedUrl \in visited
              \/ BeyondMaxDepth(item)
              \/ isDisallowed(item.url)
              \/ ~isAllowed(item.url, startDomain)
           THEN UNCHANGED <<visited, discoveredUrls, pageVisited, bfsPc, cur>>
           ELSE /\ visited' = visited \cup {normalizedUrl}
                /\ discoveredUrls' = Append(discoveredUrls, item.url)
                /\ pageVisited' = Append(pageVisited, item)
                /\ IF ReachedMaxPages(Len(discoveredUrls) + 1)
                   THEN bfsPc' = "returned" /\ cur' = cur
                   ELSE IF AtMaxDepth(item)
                   THEN bfsPc' = "loop" /\ cur' = cur
                   ELSE bfsPc' = "loading" /\ cur' = item
  /\ UNCHANGED <<notBfsVars, bfsLocals, disallowedPaths, startUrl, loaded>>

\* the loop condition fails: return discoveredUrls
LoopExit ==
  /\ bfsPc = "loop"
  /\ ~LoopCond
  /\ bfsPc' = "returned"
  /\ UNCHANGED <<notBfsVars, bfsLocals, visited, disallowedPaths, startUrl, queue,
                 discoveredUrls, pageVisited, loaded, cur>>

\* page.goto and extractLinks succeed; the new links are queued
LoadOk(raw) ==
  /\ bfsPc = "loading"
  /\ loaded' = Append(loaded, [url |-> cur.url, depth |-> cur.depth, ok |-> TRUE])
  /\ queue' = EnqueueLinks(queue, extractLinks(raw, startDomain), cur)
  /\ cur' = NoItem
  /\ bfsPc' = "loop"
  /\ UNCHANGED <<notBfsVars, bfsLocals, visited, disallowedPaths, startUrl, discoveredUrls,
                 pageVisited>>

LoadFailEndsCrawl ==
  /\ bfsPc = "loading"
  /\ loaded' = Append(loaded, [url |-> cur.url, depth |-> cur.depth, ok |-> FALSE])
  /\ cur' = NoItem
  /\ bfsPc' = "returned"
  /\ UNCHANGED <<notBfsVars, bfsLocals, visited, disallowedPaths, startUrl, queue,
                 discoveredUrls, pageVisited>>

\* page.goto or extractLinks throws: logged, the loop goes on
LoadFail ==
  /\ bfsPc = "loading"
  /\ loaded' = Append(loaded, [url |-> cur.url, depth |-> cur.depth, ok |-> FALSE])
  /\ cur' = NoItem
  /\ bfsPc' = "loop"
  /\ UNCHANGED <<notBfsVars, bfsLocals, visited, disallowedPaths, startUrl, queue,
                 discoveredUrls, pageVisited>>

ResetKeepsState ==
  /\ bfsPc = "returned"
  /\ bfsPc' = "idle"
  /\ UNCHANGED <<notBfsVars, bfsLocals, visited, disallowedPaths, startUrl, queue,
                 discoveredUrls, pageVisited, loaded, cur>>

\* reset(), called by Scanner.discoverUrls after each crawl
Reset ==
  /\ bfsPc = "returned"
  /\ visited' = {}
  /\ disallowedPaths' = {}
  /\ bfsPc' = "idle"
  /\ UNCHANGED <<notBfsVars, bfsLocals, startUrl, queue, discoveredUrls, pageVisited,
                 loaded, cur>>

\* one crawl() call on a new crawler
NextCrawl ==
  \/ \E seed \in Seeds, robots \in RobotsResponses : CrawlStart(seed, robots)
  \/ LoopIter
  \/ LoopExit
  \/ \E raw \in Pages : LoadOk(raw)
  \/ LoadFail

NextBfs ==
  \/ \E seed \in Seeds, robots \in RobotsResponses : CrawlStart(seed, robots)
  \/ LoopIter
  \/ LoopExit
  \/ \E raw \in Pages : LoadOk(raw)
  \/ LoadFail
  \/ Reset

----------------------------------------------------------------------------
(* SitemapCrawler *)

MaxUrlsBound == 2
MaxChildren == 2
MaxIndexDepth == 1
MaxRedirects == 2

\* (this.options.maxUrls || 100)
DefaultMaxUrls == 100

commonLocations == <<"/sitemap.xml", "/sitemap_index.xml", "/sitemap/sitemap.xml",
                     "/sitemaps/sitemap.xml">>

BaseUrls == {uRoot, uX}

\* the <url> entries of a urlset; NoUrl stands for an entry without <loc>
UrlSets == { <<uP>>,
             <<uP, NoUrl, uP, uX>>,
             <<uB, uRoot, uX, uP>> }

Response(kind, entries, n) == [kind |-> kind, entries |-> entries, n |-> n]

\* how a fetch of a sitemap URL can end, redirects and indexes with children
\* apart: "fail" is a non-200 status, a network error or a timeout, "other" a
\* body that is not XML or has neither root, "index" with n = 0 a sitemap
\* index none of whose children has a <loc>
SitemapResponses ==
  {Response("fail", <<>>, 0), Response("other", <<>>, 0), Response("index", <<>>, 0)}
  \cup {Response("urlset", l, 0) : l \in UrlSets}

\* how the fetch of robots.txt can end: no body, a body without a Sitemap:
\* line, a body with one
RobotsResults == {"fail", "no-sitemap", "sitemap"}

\* the allowDomains test of filterUrls
SmInAllowDomains(u) ==
  \E i \in DOMAIN smOptions.allowDomains : HostMatches(u.host, smOptions.allowDomains[i])

\* the denyPatterns test of filterUrls, for patterns without metacharacters
SmMatchesDeny(u) ==
  \E i \in DOMAIN smOptions.denyPatterns : Includes(Href(u), smOptions.denyPatterns[i])

\* the two filters of filterUrls
SmFiltered(locs) ==
  LET byDomain == IF Len(smOptions.allowDomains) > 0
                  THEN SelectSeq(locs, SmInAllowDomains) ELSE locs
  IN IF Len(smOptions.denyPatterns) > 0
     THEN SelectSeq(byDomain, LAMBDA u : ~SmMatchesDeny(u)) ELSE byDomain

NoLimit(filtered) == filtered

\* if (this.options.maxUrls && filtered.length > this.options.maxUrls) slice
LimitToMaxUrls(filtered) ==
  IF smOptions.maxUrls # 0 /\ Len(filtered) > smOptions.maxUrls
  THEN Slice(filtered, smOptions.maxUrls) ELSE filtered

\* filterUrls(urls): filter, limit, then remove duplicates
filterUrls(locs) == NewSet(LimitToMaxUrls(SmFiltered(locs)))

\* the urlset branch of parseSitemap: the entries that have a <loc>
ParseUrlset(entries) == SelectSeq(entries, LAMBDA e : e # NoUrl)

\* (this.options.maxUrls || 100)
MaxUrlsOrDefault == IF smOptions.maxUrls # 0 THEN smOptions.maxUrls ELSE DefaultMaxUrls

\* a crawl() call returns childUrls (made by filterUrls(raw)) to the pending
\* parseSitemap calls: the innermost index loop pushes them and either goes on
\* to its next child or ends, and then its own crawl() returns in turn
IndexFullStrict(urls, childUrls) == Len(urls) + Len(childUrls) > MaxUrlsOrDefault

\* if (urls.length + childUrls.length >= (this.options.maxUrls || 100))
IndexFull(urls, childUrls) == Len(urls) + Len(childUrls) >= MaxUrlsOrDefault

\* a frame of smStack: a parseSitemap call in the loop over the n children
\* (with a <loc>) of an index, waiting for crawl() of child k; self is the
\* position of the child whose <loc> is the index itself, 0 if there is none
Frame(n, k, self, urls) == [n |-> n, k |-> k, self |-> self, urls |-> urls]

\* a crawl() call returns childUrls (made by filterUrls(raw)) to the pending
\* parseSitemap calls: the innermost index loop pushes them and either goes on
\* to its next child or ends, and then its own crawl() returns in turn
RECURSIVE CrawlReturns(_, _, _, _)
CrawlReturns(stack, childUrls, raw, ended) ==
  IF stack = <<>>
  THEN [returned |-> TRUE, stack |-> <<>>, urls |-> childUrls, raw |-> raw,
        ended |-> ended]
  ELSE LET f == stack[Len(stack)]
           rest == SubSeq(stack, 1, Len(stack) - 1)
           full == IndexFull(f.urls, childUrls)
           pushed == f.urls \o (IF full
                                THEN Slice(childUrls, MaxUrlsOrDefault - Len(f.urls))
                                ELSE childUrls)
       IN IF full \/ f.k = f.n
          THEN CrawlReturns(rest, filterUrls(pushed), pushed,
                            [n |-> f.n, k |-> f.k, urls |-> pushed])
          ELSE [returned |-> FALSE,
                stack |-> Append(rest, Frame(f.n, f.k + 1, f.self, pushed)),
                urls |-> <<>>, raw |-> <<>>, ended |-> ended]

\* the sitemap being fetched is the index whose loop asked for it: the child
\* of the innermost pending index that is the index itself
FetchingSelf ==
  /\ smPc = "fetch"
  /\ smStack # <<>>
  /\ smStack[Len(smStack)].self = smStack[Len(smStack)].k

\* constructor
InitSitemap ==
  /\ smOptions \in [maxUrls : 0..MaxUrlsBound,
                    allowDomains : AllowDomainLists,
                    denyPatterns : DenyPatternLists]
  /\ baseUrl = NoUrl
  /\ smPc = "idle"
  /\ smLoc = 0
  /\ smStack = <<>>
  /\ smRedirects = 0
  /\ smRaw = <<>>
  /\ smSource = "none"
  /\ smResult = <<>>
  /\ smIndexEnd = NoIndex
  /\ ScanIdle
  /\ BfsIdle
  /\ PlanIdle
  /\ DdIdle
  /\ EvIdle
  /\ SwIdle

\* discover(baseUrl) up to the fetch of the first common location
Discover(base) ==
  /\ smPc = "idle"
  /\ baseUrl' = base
  /\ smLoc' = 1
  /\ smPc' = "fetch"
  /\ UNCHANGED <<notSmVars, smOptions, smStack, smRedirects, smRaw, smSource, smResult,
                 smIndexEnd>>

\* fetchUrl gets a 301 or 302 with a location header and fetches the location
\* (redirects are followed on the fetches that discover() starts itself; the
\* fetch of a child sitemap runs the same fetchUrl)
FetchRedirect ==
  /\ smPc \in {"fetch", "robots"}
  /\ smStack = <<>>
  /\ smRedirects < MaxRedirects
  /\ smRedirects' = smRedirects + 1
  /\ UNCHANGED <<notSmVars, smOptions, baseUrl, smPc, smLoc, smStack, smRaw, smSource,
                 smResult, smIndexEnd>>

\* the fetched sitemap is an index with n children that have a <loc>, child
\* self being the index itself (0: none): parseSitemap starts its loop and
\* crawls the first child.  An index that is fetched again answers as before;
\* of the other indexes, the outermost ones may list themselves.  Indexes are
\* followed MaxIndexDepth deep, and an index that lists itself once more.
FetchIndex(n, self) ==
  /\ smPc = "fetch"
  /\ IF FetchingSelf
     THEN /\ n = smStack[Len(smStack)].n
          /\ self = smStack[Len(smStack)].self
          /\ Len(smStack) <= MaxIndexDepth
     ELSE /\ self # 0 => smStack = <<>>
          /\ Len(smStack) < MaxIndexDepth
  /\ smStack' = Append(smStack, Frame(n, 1, self, <<>>))
  /\ smRedirects' = 0
  /\ UNCHANGED <<notSmVars, smOptions, baseUrl, smPc, smLoc, smRaw, smSource, smResult,
                 smIndexEnd>>

\* the fetch of a sitemap ends with r: this crawl() returns, and so does every
\* pending crawl() whose index loop ends with it; when the outermost crawl()
\* returns, discover() returns its list or goes on to the next location
FetchSitemap(r) ==
  /\ smPc = "fetch"
  /\ ~FetchingSelf
  /\ LET raw == IF r.kind = "urlset" THEN ParseUrlset(r.entries) ELSE <<>>
         list == IF r.kind = "fail" THEN <<>> ELSE filterUrls(raw)
         ret == CrawlReturns(smStack, list, raw, NoIndex)
     IN /\ smStack' = ret.stack
        /\ smRedirects' = 0
        /\ smIndexEnd' = IF ret.returned /\ Len(ret.urls) > 0 THEN ret.ended
                         ELSE NoIndex
        /\ IF ~ret.returned
           THEN UNCHANGED <<smPc, smLoc, smRaw, smSource, smResult>>
           ELSE IF smLoc <= Len(commonLocations)
           THEN IF Len(ret.urls) > 0
                THEN /\ smPc' = "done"
                     /\ smResult' = ret.urls
                     /\ smRaw' = ret.raw
                     /\ smSource' = "sitemap"
                     /\ smLoc' = smLoc
                ELSE /\ smLoc' = smLoc + 1
                     /\ smPc' = IF smLoc < Len(commonLocations) THEN "fetch" ELSE "robots"
                     /\ UNCHANGED <<smRaw, smSource, smResult>>
           ELSE /\ smPc' = "done"
                /\ smResult' = ret.urls
                /\ smRaw' = ret.raw
                /\ smSource' = "robots-sitemap"
                /\ smLoc' = smLoc
  /\ UNCHANGED <<notSmVars, smOptions, baseUrl>>

\* the fetch of robots.txt ends: with a Sitemap: line discover() returns what
\* crawl() of the declared sitemap returns, else it returns [baseUrl]
FetchRobots(res) ==
  /\ smPc = "robots"
  /\ smRedirects' = 0
  /\ IF res = "sitemap"
     THEN /\ smLoc' = smLoc + 1
          /\ smPc' = "fetch"
          /\ UNCHANGED <<smRaw, smSource, smResult>>
     ELSE /\ smPc' = "done"
          /\ smResult' = <<baseUrl>>
          /\ smSource' = "fallback"
          /\ UNCHANGED <<smLoc, smRaw>>
  /\ UNCHANGED <<notSmVars, smOptions, baseUrl, smStack, smIndexEnd>>

NextSitemap ==
  \/ \E base \in BaseUrls : Discover(base)
  \/ FetchRedirect
  \/ \E n \in 1..MaxChildren, self \in 0..MaxChildren : self <= n /\ FetchIndex(n, self)
  \/ \E r \in SitemapResponses : FetchSitemap(r)
  \/ \E res \in RobotsResults : FetchRobots(res)

----------------------------------------------------------------------------
(* Scanner.scan: URL discovery (crawl modes single and journey) and job    *)
(* generation                                                              *)

MaxStartUrls == 3
MaxPlanPages == 2

StartUrlNames == {"u1", "u2", "u3"}

\* input.viewports is optional
NoViewports == <<Undefined>>

ViewportInputs == {NoViewports, <<>>, <<"desktop">>, <<"mobile", "desktop">>,
                   <<"desktop", "tablet", "mobile">>}

VIEWPORT_PRESETS(v) ==
  CASE v = "desktop" -> [name |-> v, width |-> 1920, height |-> 1080]
    [] v = "tablet" -> [name |-> v, width |-> 768, height |-> 1024]
    [] v = "mobile" -> [name |-> v, width |-> 375, height |-> 812]

\* (input.viewports || ['desktop']).map((v) => VIEWPORT_PRESETS[v])
Viewports(in) ==
  LET names == IF in.viewports = NoViewports THEN <<"desktop">> ELSE in.viewports
  IN [i \in DOMAIN names |-> VIEWPORT_PRESETS(names[i])]

\* discoverUrls, modes single and journey: the start URLs, deduplicated, cut
\* to maxPages when maxPages is given
discoverUrls(in) ==
  LET filteredUrls == NewSet(in.startUrls)
  IN IF in.maxPages # 0 /\ Len(filteredUrls) > in.maxPages
     THEN Slice(filteredUrls, in.maxPages) ELSE filteredUrls

\* input.customSpecs: absent, the path of a file that cannot be read, of a file
\* that is not JSON, of a JSON file holding an object without a rules list, or
\* of a ruleset file
CustomSpecs == {Undefined, "unreadable-file", "invalid-json", "no-rules-list",
                "ruleset"}

Malformed(cs) == cs \in {"unreadable-file", "invalid-json", "no-rules-list"}

\* SpecAnalyzer.loadRules: fs.readFile or JSON.parse may throw; whatever
\* JSON.parse returns becomes this.ruleset
loadRules(cs) ==
  CASE cs \in {"unreadable-file", "invalid-json"} -> "throws"
    [] cs = "no-rules-list" -> "object-without-rules"
    [] OTHER -> "ruleset"

\* SpecAnalyzer.analyze: for (const rule of this.ruleset.rules) throws a
\* TypeError when the ruleset has no rules list; scanPage turns it into the
\* job's error
AnalyzeError(rs) ==
  IF rs = "object-without-rules" THEN "this.ruleset.rules is not iterable"
  ELSE Undefined

InitPlan ==
  /\ input \in [startUrls : SeqsUpTo(StartUrlNames, MaxStartUrls),
                maxPages : 0..MaxPlanPages,
                viewports : ViewportInputs,
                customSpecs : CustomSpecs]
  /\ ruleset = "none"
  /\ planUrls = <<>>
  /\ planErrors = <<>>
  /\ jobList = <<>>
  /\ planPc = "start"
  /\ ScanIdle
  /\ BfsIdle
  /\ SmIdle
  /\ DdIdle
  /\ EvIdle
  /\ SwIdle

\* await specAnalyzer.loadRules(input.customSpecs || createDefaultRuleset()):
\* a throw makes scan() reject, before the browser is launched
LoadRules ==
  /\ planPc = "start"
  /\ LET outcome == loadRules(input.customSpecs)
     IN IF outcome = "throws"
        THEN planPc' = "failed" /\ ruleset' = ruleset
        ELSE planPc' = "rules" /\ ruleset' = outcome
  /\ UNCHANGED <<notPlanVars, input, planUrls, jobList, planErrors>>

\* the browser is launched; const urls = await this.discoverUrls(input)
DiscoverUrls ==
  /\ planPc = "rules"
  /\ planUrls' = discoverUrls(input)
  /\ planPc' = "discovered"
  /\ UNCHANGED <<notPlanVars, input, jobList, ruleset, planErrors>>

\* the viewports are looked up and the jobs generated
GenerateJobs ==
  /\ planPc = "discovered"
  /\ jobList' = JobMatrix(planUrls, Viewports(input))
  /\ planPc' = "generated"
  /\ UNCHANGED <<notPlanVars, input, planUrls, ruleset, planErrors>>

\* every job runs specAnalyzer.analyze on its page; a throw becomes the
\* ScanError of that job
AnalyzeJobs ==
  /\ planPc = "generated"
  /\ planErrors' =
       IF AnalyzeError(ruleset) = Undefined THEN <<>>
       ELSE [j \in DOMAIN jobList |->
               [pageUrl |-> jobList[j].url, viewport |-> jobList[j].viewport.name,
                error |-> AnalyzeError(ruleset)]]
  /\ planPc' = "analyzed"
  /\ UNCHANGED <<notPlanVars, input, planUrls, jobList, ruleset>>

NextPlan ==
  \/ LoadRules
  \/ DiscoverUrls
  \/ GenerateJobs
  \/ AnalyzeJobs

\* the pages and selectors of the findings
pProduct12 == PageUrl(HostA, <<"/", "product", "/", "1", "2">>)
pProduct99 == PageUrl(HostA, <<"/", "product", "/", "9", "9">>)
pReport == PageUrl(HostA, <<"/", "report", "/", "d", "e", "a", "d", "b", "e", "e", "f", "0", "1">>)
pHome == PageUrl(HostA, <<"/">>)

ListItemImage(i) ==
  <<Tok("text", <<"ul", " ", ">", " ", "li">>), Tok("nth-child", <<i>>),
    Tok("text", <<" ", ">", " ", "img">>)>>

ItemById == <<Tok("text", <<"div">>), Tok("id", <<"item", "-", "1", "2">>),
              Tok("text", <<" ">>)>>

OnlyPositional == <<Tok("nth-of-type", <<"3">>)>>

fHighImage == Finding("f1", "image-alt", "axe", "high", "certain", pProduct12,
                      "desktop", <<ListItemImage("2")>>)

fCriticalImage == Finding("f5", "image-alt", "axe", "critical", "certain", pProduct12,
                          "desktop", <<ListItemImage("7")>>)

\* the findings the analyzers may report
FindingUniverse ==
  { fHighImage,
    Finding("f2", "image-alt", "axe", "high", "likely", pProduct99, "desktop",
            <<ListItemImage("7")>>),
    Finding("f3", "image-alt", "axe", "high", "certain", pProduct12, "mobile",
            <<ListItemImage("2")>>),
    Finding("f4", "", "contrast", "low", "needs_review", pHome, "desktop",
            <<ItemById, OnlyPositional>>),
    fCriticalImage,
    Finding("f6", "label", "axe", "critical", "likely", pReport, "tablet", <<>>),
    Finding("f7", "label", "axe", "medium", "certain", pHome, "desktop",
            <<OnlyPositional>>),
    Finding("f8", "", "", "info", "likely", pHome, "desktop", <<ItemById>>) }

\* criticalFindings.slice(0, 10)
ElementShotLimit == 10

\* a job with more findings than element screenshots are taken: the critical
\* one is reported last
ManyFindings ==
  [i \in 1..(ElementShotLimit + 1) |->
     IF i <= ElementShotLimit THEN fHighImage ELSE fCriticalImage]

\* scanPage: the findings for which captureElement is called
ElementShotTargets(fs) ==
  LET criticalFindings == SelectSeq(fs, LAMBDA f : f.severity \in {"critical", "high"})
  IN SelectSeq(Slice(criticalFindings, ElementShotLimit),
               LAMBDA f : Len(f.selectors) > 0)

InitDedup ==
  /\ findings \in SeqsUpTo(FindingUniverse, MaxFindings) \cup {ManyFindings}
  /\ clusters = <<>>
  /\ limit = 0
  /\ top = <<>>
  /\ ddPc = "start"
  /\ attempted = <<>>
  /\ ScanIdle
  /\ BfsIdle
  /\ SmIdle
  /\ PlanIdle
  /\ EvIdle
  /\ SwIdle

\* const dedupedFindings = deduplicateFindings(allFindings)
Deduplicate ==
  /\ ddPc = "start"
  /\ clusters' = deduplicateFindings(findings)
  /\ ddPc' = "deduplicated"
  /\ UNCHANGED <<notDdVars, findings, limit, top, attempted>>

\* getTopFindings(findings, n)
TopFindings(n) ==
  /\ ddPc = "start"
  /\ limit' = n
  /\ top' = getTopFindings(findings, n)
  /\ ddPc' = "top"
  /\ UNCHANGED <<notDdVars, findings, clusters, attempted>>

\* const topFindings = getTopFindings(dedupedFindings, 10)
ScanTopFindings ==
  /\ ddPc = "deduplicated"
  /\ limit' = ScanTopLimit
  /\ top' = getTopFindings(clusters, ScanTopLimit)
  /\ ddPc' = "scan-top"
  /\ UNCHANGED <<notDdVars, findings, clusters, attempted>>

\* scanPage, after the analyzers: the element screenshots of the job's findings
ElementScreenshots ==
  /\ ddPc = "start"
  /\ attempted' = ElementShotTargets(findings)
  /\ ddPc' = "element-shots"
  /\ UNCHANGED <<notDdVars, findings, clusters, limit, top>>

NextDedup ==
  \/ Deduplicate
  \/ ElementScreenshots
  \/ \E n \in 0..MaxLimit : TopFindings(n)
  \/ ScanTopFindings

----------------------------------------------------------------------------
(* EvidenceCollector: the screenshot captures of the jobs of one batch,    *)
(* which share one collector.  A file name is a sequence of characters.    *)

MaxElementShots == 2

\* .padStart(4, '0')
PadWidth == 4

\* .substring(0, 30)
PrefixLimit == 30

\* String(n), for n >= 0
RECURSIVE DigitsOf(_)
DigitsOf(n) ==
  LET d == <<"0", "1", "2", "3", "4", "5", "6", "7", "8", "9">>[(n % 10) + 1]
  IN IF n < 10 THEN <<d>> ELSE Append(DigitsOf(n \div 10), d)

\* s.padStart(width, '0')
RECURSIVE PadStart(_, _)
PadStart(str, width) ==
  IF Len(str) >= width THEN str ELSE PadStart(<<"0">> \o str, width)

Letters == {"a", "b", "e", "g", "p"}

\* prefix.replace(/[^a-z0-9-]/gi, '-')
Sanitize(str) ==
  [i \in DOMAIN str |->
     IF str[i] \in Letters \cup Digits \cup {"-"} THEN str[i] ELSE "-"]

\* crypto.createHash('md5').update(url).digest('hex').substring(0, 8)
UrlHash(url) == [md5 |-> url, chars |-> 8]

generateFilenameNoIndex(index, prefix, url, viewport, extension) ==
  Slice(Sanitize(prefix), PrefixLimit)
    \o <<"-", viewport, "-", UrlHash(url), ".", extension>>

\* generateFilename(prefix, url, viewport, extension), with the value of
\* this.screenshotIndex after its increment
generateFilename(index, prefix, url, viewport, extension) ==
  PadStart(DigitsOf(index), PadWidth) \o <<"-">>
    \o Slice(Sanitize(prefix), PrefixLimit)
    \o <<"-", viewport, "-", UrlHash(url), ".", extension>>

\* the jobs of the batch: one page at two viewports
ShotJobs == JobMatrix(<<PageUrl(HostA, <<"/">>)>>, <<"desktop", "mobile">>)

\* finding.ruleId of the findings of a page that get an element screenshot
ShotRules ==
  Slice(<<<<"a", ":", "b">>, <<"a", "-", "b">>, <<"p", "a", "g", "e">>>>,
        MaxElementShots)

InitEvidence ==
  /\ screenshotIndex = 0
  /\ shotPc = [j \in DOMAIN ShotJobs |-> "page"]
  /\ shotK = [j \in DOMAIN ShotJobs |-> 0]
  /\ shotName = [j \in DOMAIN ShotJobs |-> <<>>]
  /\ issued = {}
  /\ written = {}
  /\ ScanIdle
  /\ BfsIdle
  /\ SmIdle
  /\ PlanIdle
  /\ DdIdle
  /\ SwIdle

\* the capture that job j is at: 0 is the full page, n the n-th finding
CaptureOf(j) == [job |-> j, n |-> IF shotPc[j] \in {"page", "pageShot"} THEN 0
                                   ELSE shotK[j] + 1]

\* the position of job j once its capture of finding shotK[j] + 1 is over
AfterElement(j) == IF shotK[j] + 1 >= Len(ShotRules) THEN "done" ELSE "element"

\* captureFullPage up to its await: the file name is generated
CaptureFullPage(j) ==
  /\ shotPc[j] = "page"
  /\ screenshotIndex' = screenshotIndex + 1
  /\ LET name == generateFilename(screenshotIndex + 1, <<"p", "a", "g", "e">>,
                                  ShotJobs[j].url, ShotJobs[j].viewport, "png")
     IN /\ shotName' = [shotName EXCEPT ![j] = name]
        /\ issued' = issued \cup {[name |-> name, job |-> j, n |-> 0]}
  /\ shotPc' = [shotPc EXCEPT ![j] = "pageShot"]
  /\ UNCHANGED <<notEvVars, shotK, written>>

\* await page.screenshot({ path: filepath, fullPage: true }) writes the file
PageShotOk(j) ==
  /\ shotPc[j] = "pageShot"
  /\ written' = written \cup {[name |-> shotName[j], job |-> j, n |-> 0]}
  /\ shotName' = [shotName EXCEPT ![j] = <<>>]
  /\ shotPc' = [shotPc EXCEPT ![j] = IF ShotRules = <<>> THEN "done" ELSE "element"]
  /\ UNCHANGED <<notEvVars, screenshotIndex, shotK, issued>>

\* page.screenshot throws: scanPage's catch, no element screenshot is taken
PageShotThrow(j) ==
  /\ shotPc[j] = "pageShot"
  /\ shotName' = [shotName EXCEPT ![j] = <<>>]
  /\ shotPc' = [shotPc EXCEPT ![j] = "done"]
  /\ UNCHANGED <<notEvVars, screenshotIndex, shotK, issued, written>>

\* captureElement: await element.isVisible() is true, the name is generated
ElementVisible(j) ==
  /\ shotPc[j] = "element"
  /\ screenshotIndex' = screenshotIndex + 1
  /\ LET name == generateFilename(screenshotIndex + 1, ShotRules[shotK[j] + 1],
                                  ShotJobs[j].url, ShotJobs[j].viewport, "png")
     IN /\ shotName' = [shotName EXCEPT ![j] = name]
        /\ issued' = issued \cup {[name |-> name, job |-> j, n |-> shotK[j] + 1]}
  /\ shotPc' = [shotPc EXCEPT ![j] = "elementShot"]
  /\ UNCHANGED <<notEvVars, shotK, written>>

\* isVisible() is false or throws: captureElement returns undefined
ElementHidden(j) ==
  /\ shotPc[j] = "element"
  /\ shotPc' = [shotPc EXCEPT ![j] = AfterElement(j)]
  /\ shotK' = [shotK EXCEPT ![j] = @ + 1]
  /\ UNCHANGED <<notEvVars, screenshotIndex, shotName, issued, written>>

\* scrollIntoViewIfNeeded, waitForTimeout and element.screenshot complete
ElementShotOk(j) ==
  /\ shotPc[j] = "elementShot"
  /\ written' = written \cup {[name |-> shotName[j], job |-> j, n |-> shotK[j] + 1]}
  /\ shotName' = [shotName EXCEPT ![j] = <<>>]
  /\ shotPc' = [shotPc EXCEPT ![j] = AfterElement(j)]
  /\ shotK' = [shotK EXCEPT ![j] = @ + 1]
  /\ UNCHANGED <<notEvVars, screenshotIndex, issued>>

\* one of them throws: caught inside captureElement, which returns undefined
ElementShotThrow(j) ==
  /\ shotPc[j] = "elementShot"
  /\ shotName' = [shotName EXCEPT ![j] = <<>>]
  /\ shotPc' = [shotPc EXCEPT ![j] = AfterElement(j)]
  /\ shotK' = [shotK EXCEPT ![j] = @ + 1]
  /\ UNCHANGED <<notEvVars, screenshotIndex, issued, written>>

NextEvidence ==
  \/ \E j \in DOMAIN ShotJobs : CaptureFullPage(j)
  \/ \E j \in DOMAIN ShotJobs : PageShotOk(j)
  \/ \E j \in DOMAIN ShotJobs : PageShotThrow(j)
  \/ \E j \in DOMAIN ShotJobs : ElementVisible(j)
  \/ \E j \in DOMAIN ShotJobs : ElementHidden(j)
  \/ \E j \in DOMAIN ShotJobs : ElementShotOk(j)
  \/ \E j \in DOMAIN ShotJobs : ElementShotThrow(j)

----------------------------------------------------------------------------
(* scanWebsite(input) in crawl mode bfs: the scanner and the crawler are   *)
(* built from the input, every start URL is crawled by the BfsCrawler      *)
(* actions above, the lists are merged, and the first batch is cut.        *)

\* maxPages: input.maxPages || 50
DefaultInputMaxPages == 50

\* maxDepth: input.maxDepth || 3
DefaultInputMaxDepth == 3

\* an optional number that is given
Given(n) == <<n>>

\* opt || dflt, for an optional number: undefined and 0 are falsy
OrDefault(opt, dflt) == IF opt = NotGiven \/ opt[1] = 0 THEN dflt ELSE opt[1]

GivenOrDefault(opt, dflt) == IF opt = NotGiven THEN dflt ELSE opt[1]

\* input.startUrls of the scans
SwStartUrlLists == {<<uRoot>>, <<uRoot, uP>>, <<uP, uRoot>>}

\* what the pages of the scanned site link to
SwPages == {<<>>, <<uP, uPs, uB>>, <<uRoot, uPref>>}

\* the robots.txt of the scanned site
SwRobots == {NotOk}

\* new BfsCrawler({maxPages: input.maxPages || 50, maxDepth: input.maxDepth || 3,
\* allowDomains: input.allowDomains, denyPatterns: input.denyPatterns}), spread
\* over the defaults of the constructor
CrawlerOptions(in) ==
  [maxPages |-> OrDefault(in.maxPages, DefaultInputMaxPages),
   maxDepth |-> OrDefault(in.maxDepth, DefaultInputMaxDepth),
   allowDomains |-> <<>>,
   denyPatterns |-> <<>>,
   respectRobotsTxt |-> TRUE,
   sameDomainOnly |-> TRUE]

\* [...new Set(urls)], then slice(0, input.maxPages) when maxPages is truthy
DedupeAndLimit(urls, in) ==
  LET filteredUrls == NewSet(urls)
      maxPages == OrDefault(in.maxPages, 0)
  IN IF maxPages # 0 /\ Len(filteredUrls) > maxPages
     THEN Slice(filteredUrls, maxPages) ELSE filteredUrls

\* scanWebsite(input): new Scanner({ verbose: true }), whose concurrency is the
\* default of the constructor, then scan(input)
InitWebsite ==
  /\ swInput \in [startUrls : SwStartUrlLists,
                   maxPages : {NotGiven} \cup {Given(n) : n \in 0..MaxPlanPages},
                   maxDepth : {NotGiven} \cup {Given(n) : n \in 0..MaxDepthBound},
                   concurrency : {NotGiven} \cup {Given(n) : n \in 1..MaxConcurrency}]
  /\ swPc = "start"
  /\ swSeed = 1
  /\ swUrls = <<>>
  /\ swJobs = <<>>
  /\ swBatch = <<>>
  /\ concurrency = DefaultConcurrency
  /\ jobs = <<>>
  /\ scanPc = "loop"
  /\ batchIdx = 1
  /\ jobPc = <<>>
  /\ ctx = <<>>
  /\ closeCalls = <<>>
  /\ jobError = <<>>
  /\ jobFindings = <<>>
  /\ threw = <<>>
  /\ allFindings = <<>>
  /\ errors = <<>>
  /\ browserOpen = TRUE
  /\ summary = NoSummary
  /\ exitCode = NoExit
  /\ overtaken = FALSE
  /\ BfsIdle
  /\ SmIdle
  /\ PlanIdle
  /\ DdIdle
  /\ EvIdle

\* discoverUrls, case 'bfs': the crawler is constructed
SwNewCrawler ==
  /\ swPc = "start"
  /\ options' = CrawlerOptions(swInput)
  /\ swPc' = "seeds"
  /\ UNCHANGED <<notSwBfsVars, swInput, swSeed, swUrls, swJobs, swBatch, visited,
                 disallowedPaths, bfsPc, startUrl, queue, discoveredUrls,
                 pageVisited, loaded, cur, crawls, robotsTxt>>

\* for (const startUrl of input.startUrls): bfsCrawler.crawl(startUrl, page)
SwCrawl ==
  /\ swPc = "seeds"
  /\ swSeed <= Len(swInput.startUrls)
  /\ \E robots \in SwRobots : CrawlStart(swInput.startUrls[swSeed], robots)

\* urls.push(...crawledUrls); bfsCrawler.reset()
SwSeedDone ==
  /\ swPc = "seeds"
  /\ bfsPc = "returned"
  /\ swUrls' = swUrls \o discoveredUrls
  /\ swSeed' = swSeed + 1
  /\ visited' = {}
  /\ disallowedPaths' = {}
  /\ bfsPc' = "idle"
  /\ UNCHANGED <<notSwBfsVars, swInput, swPc, swJobs, swBatch, bfsLocals, startUrl,
                 queue, discoveredUrls, pageVisited, loaded, cur>>

\* the seed loop is over: the list is deduplicated, cut and returned
SwReturnUrls ==
  /\ swPc = "seeds"
  /\ bfsPc = "idle"
  /\ swSeed > Len(swInput.startUrls)
  /\ swUrls' = DedupeAndLimit(swUrls, swInput)
  /\ swPc' = "discovered"
  /\ UNCHANGED <<notSwBfsVars, bfsVars, swInput, swSeed, swJobs, swBatch>>

\* the jobs are generated and the first batch is cut: jobs.slice(0, batchSize)
SwFirstBatch ==
  /\ swPc = "discovered"
  /\ LET js == JobMatrix(swUrls, <<"desktop">>)
     IN /\ swJobs' = js
        /\ swBatch' = Slice(js, batchSize)
  /\ swPc' = "generated"
  /\ UNCHANGED <<notSwBfsVars, bfsVars, swInput, swSeed, swUrls>>

NextWebsite ==
  \/ SwNewCrawler
  \/ SwCrawl
  \/ LoopIter
  \/ LoopExit
  \/ \E raw \in SwPages : LoadOk(raw)
  \/ LoadFail
  \/ SwSeedDone
  \/ SwReturnUrls
  \/ SwFirstBatch

----------------------------------------------------------------------------
(* Specifications *)

SpecScan == InitScan /\ [][NextScan]_vars

SpecBfs == InitBfs /\ [][NextBfs]_vars

\* one crawl, with a loop that keeps running and page loads that all return
\* or throw
SpecBfsLive ==
  /\ InitBfs
  /\ [][NextCrawl]_vars
  /\ WF_vars(LoopIter)
  /\ WF_vars(LoopExit)
  /\ WF_vars(LoadFail \/ \E raw \in Pages : LoadOk(raw))

SpecSitemap == InitSitemap /\ [][NextSitemap]_vars

SpecPlan == InitPlan /\ [][NextPlan]_vars

SpecDedup == InitDedup /\ [][NextDedup]_vars

SpecEvidence == InitEvidence /\ [][NextEvidence]_vars

SpecWebsite == InitWebsite /\ [][NextWebsite]_vars

----------------------------------------------------------------------------
(* Properties of the scheduler, checked under SpecScan *)

OpenContexts == {j \in DOMAIN jobs : ctx[j] = "open"}

\* C1: with concurrency c >= 1, the number of browsing contexts that scan
\* jobs have created and not yet closed never exceeds c.
C1_OpenContextsBounded ==
  concurrency >= 1 => Cardinality(OpenContexts) <= concurrency

\* the second batch of a concurrency-2 scan holds two contexts at once
C1_Witness ==
  /\ concurrency = 2
  /\ batchIdx > 1
  /\ Cardinality(OpenContexts) = 2

\* C2: no job of a later batch has started before every job of every earlier
\* batch has settled (fulfilled with findings or an error, or rejected).
C2_BatchBarrier ==
  \A j, k \in DOMAIN jobs :
    (BatchOf(k) < BatchOf(j) /\ jobPc[j] # "idle") => Settled(k)

\* a job of a later batch holds its context after an earlier job errored
C2_Witness ==
  \E j, k \in DOMAIN jobs :
    /\ BatchOf(k) < BatchOf(j)
    /\ ctx[j] = "open"
    /\ Truthy(jobError[k])
    /\ \E m \in DOMAIN jobs : m # k /\ BatchOf(m) = BatchOf(k)

HasScanError(j) ==
  \E i \in DOMAIN errors :
    errors[i].pageUrl = jobs[j].url /\ errors[i].viewport = jobs[j].viewport

\* C3: a job's failure at any step never makes scan() fail, and once the scan
\* is done every job that threw is recorded as a ScanError.
C3_FailureCaptured ==
  /\ scanPc # "failed"
  /\ scanPc = "done" => \A j \in DOMAIN jobs : threw[j] => HasScanError(j)

ErrorsOf(j) ==
  SelectSeq(errors, LAMBDA e : e.pageUrl = jobs[j].url /\ e.viewport = jobs[j].viewport)

FindingsOf(j) ==
  SelectSeq(allFindings,
            LAMBDA f : f.pageUrl = jobs[j].url /\ f.viewport = jobs[j].viewport)

Successful(j) == jobPc[j] = "resolved" /\ ErrorsOf(j) = <<>>

\* C4: when the run has ended, every job has been executed and ended either
\* with its findings appended and no ScanError, or with exactly one ScanError
\* and none of its findings appended; errors + successful jobs = jobs.
C4_ExactlyOneOutcome ==
  scanPc \in {"done", "failed"} =>
    /\ \A j \in DOMAIN jobs :
         /\ jobPc[j] # "idle"
         /\ \/ ErrorsOf(j) = <<>> /\ FindingsOf(j) = jobFindings[j]
            \/ Len(ErrorsOf(j)) = 1 /\ FindingsOf(j) = <<>>
    /\ Len(errors) + Cardinality({j \in DOMAIN jobs : Successful(j)}) = Len(jobs)

\* C5: once a job has settled, the context it created has been closed, by
\* exactly one close() call of that job.
C5_ContextClosedOnce ==
  \A j \in DOMAIN jobs :
    (Settled(j) /\ ctx[j] # "none") => (ctx[j] = "closed" /\ closeCalls[j] = 1)

\* the findings of the jobs i..last that returned no error, in job order
RECURSIVE FindingsInJobOrder(_, _)
FindingsInJobOrder(i, last) ==
  IF i > last THEN <<>>
  ELSE (IF Truthy(jobError[i]) THEN <<>> ELSE jobFindings[i])
       \o FindingsInJobOrder(i + 1, last)

\* C33: whatever the order in which the jobs of a batch complete, the raw
\* finding list holds the findings of the collected jobs in job-matrix order
\* (job i's findings before job j's for i < j), so that clustering gets the
\* same list, and returns the same clusters, for every interleaving.
C33_FindingsInJobMatrixOrder ==
  scanPc \in {"loop", "done"} =>
    /\ allFindings = FindingsInJobOrder(1, Min(batchIdx - 1, Len(jobs)))
    /\ scanPc = "done" =>
         deduplicateFindings(allFindings)
           = deduplicateFindings(FindingsInJobOrder(1, Len(jobs)))

\* a batch whose later job completed before an earlier one has been collected,
\* with findings of two of its jobs
C33_Witness ==
  /\ scanPc = "done"
  /\ overtaken
  /\ \E i, j \in Batch(batchIdx - batchSize) :
       i < j /\ FindingsOf(i) # <<>> /\ FindingsOf(j) # <<>>

\* the pages of the run that have a job which completed without error
PagesWithSuccessfulJob ==
  {jobs[j].url : j \in {k \in DOMAIN jobs : Successful(k)}}

\* C21: once scan() has returned, summary.pagesScanned counts only pages that
\* have a job which completed without error; a page whose jobs all ended in
\* a ScanError is not counted.
C21_PagesScannedOnlySuccessful ==
  scanPc = "done" => summary.pagesScanned <= Cardinality(PagesWithSuccessfulJob)

\* C22: when scan() has completed and the command-line run has exited, the
\* exit code is 1 if the summary counts at least one critical finding and 0
\* otherwise, whatever the number of jobs that ended in a ScanError.
C22_ExitCodeFromCritical ==
  (scanPc = "done" /\ exitCode # NoExit) =>
    exitCode = (IF summary.findings["critical"] >= 1 THEN 1 ELSE 0)

\* every job ended in a ScanError and the run exited with code 0
C22_Witness ==
  /\ scanPc = "done"
  /\ Len(jobs) >= 2
  /\ Len(errors) = Len(jobs)
  /\ exitCode = 0

----------------------------------------------------------------------------
(* Properties of the crawler, checked under SpecBfs *)

\* C6: the number of discovered URLs never exceeds maxPages, and once it has
\* reached maxPages the crawl has stopped: no further page is loaded and the
\* loop is not re-entered.
C6_MaxPagesRespected ==
  /\ Len(discoveredUrls) <= options.maxPages
  /\ Len(discoveredUrls) >= options.maxPages =>
       /\ bfsPc # "loading"
       /\ options.maxPages > 0 => bfsPc \in {"returned", "idle"}

\* the crawl was cut at maxPages while links were still queued
C6_Witness ==
  /\ bfsPc = "returned"
  /\ options.maxPages >= 2
  /\ Len(discoveredUrls) = options.maxPages
  /\ queue # <<>>

\* C7: the discovered list is the list of onPageVisited calls, and its depths
\* never decrease: every depth-d URL comes before every depth-(d+1) URL.
C7_BreadthFirstOrder ==
  /\ Len(pageVisited) = Len(discoveredUrls)
  /\ \A i \in DOMAIN pageVisited : pageVisited[i].url = discoveredUrls[i]
  /\ \A i, j \in DOMAIN pageVisited :
       i < j => pageVisited[i].depth <= pageVisited[j].depth

\* a crawl that discovered pages at depths 0, 1, 1 and 2
C7_Witness ==
  /\ bfsPc = "returned"
  /\ Len(pageVisited) = 4
  /\ pageVisited[2].depth = 1
  /\ pageVisited[3].depth = 1
  /\ pageVisited[4].depth = 2

\* C8: no page at depth maxDepth is ever loaded for links, and with
\* maxDepth = 0, maxPages >= 1 and an allowed seed the crawl returns exactly
\* the seed without loading any page.
C8_MaxDepthStopsExtraction ==
  /\ \A i \in DOMAIN loaded : loaded[i].depth < options.maxDepth
  /\ bfsPc = "loading" => cur.depth < options.maxDepth
  /\ ( /\ options.maxDepth = 0
       /\ options.maxPages >= 1
       /\ bfsPc = "returned"
       /\ isAllowed(startUrl, startDomain)
       /\ ~isDisallowed(startUrl) )
     => (discoveredUrls = <<startUrl>> /\ loaded = <<>>)

\* a maxDepth = 0 crawl that returned its seed, not cut by maxPages
C8_Witness ==
  /\ options.maxDepth = 0
  /\ options.maxPages >= 2
  /\ bfsPc = "returned"
  /\ discoveredUrls = <<startUrl>>

\* C9: every discovered URL is not disallowed by the robots.txt rules in
\* force and passes the configured filters: same domain, allowDomains, and no
\* deny pattern, whatever combination of them is configured.
C9_DiscoveredPassFilters ==
  bfsPc \in {"loop", "loading", "returned"} =>
    \A i \in DOMAIN discoveredUrls :
      LET u == discoveredUrls[i]
      IN /\ ~isDisallowed(u)
         /\ options.sameDomainOnly => u.host = startDomain
         /\ Len(options.allowDomains) > 0 => InAllowDomains(u)
         /\ Len(options.denyPatterns) > 0 => ~MatchesDeny(u)

\* the tracking parameters
TrackingNames == {"utm_source", "utm_medium", "utm_campaign", "ref", "fbclid"}

NonTracking(q) == SelectSeq(q, LAMBDA p : p[1] \notin TrackingNames)

Count(q, x) == Cardinality({i \in DOMAIN q : q[i] = x})

\* the same pairs, in any order
SamePairsAnyOrder(a, b) ==
  /\ Len(a) = Len(b)
  /\ \A i \in DOMAIN a : Count(a, a[i]) = Count(b, a[i])

WithName(q, n) == SelectSeq(q, LAMBDA p : p[1] = n)

\* the same pairs, where pairs of one name keep their relative order
SamePairsNameOrderKept(a, b) ==
  /\ SamePairsAnyOrder(a, b)
  /\ \A i \in DOMAIN a : WithName(a, a[i][1]) = WithName(b, a[i][1])

SamePathUpToSlash(p, q) == p = q \/ p = Append(q, "/") \/ q = Append(p, "/")

Shorter(p, q) == IF Len(p) <= Len(q) THEN p ELSE q

\* u and v differ only by a trailing slash, tracking parameters, parameter order
Variant(u, v) ==
  /\ u # v
  /\ u.host = v.host
  /\ SamePathUpToSlash(u.path, v.path)
  /\ SamePairsAnyOrder(NonTracking(u.query), NonTracking(v.query))

\* ... where the slash is added to the root or to a path not ending in a
\* slash, and parameters of one name keep their relative order
VariantKept(u, v) ==
  /\ Variant(u, v)
  /\ SamePairsNameOrderKept(NonTracking(u.query), NonTracking(v.query))
  /\ u.path # v.path =>
       \/ Shorter(u.path, v.path) = <<"/">>
       \/ ~EndsWith(Shorter(u.path, v.path), <<"/">>)

\* C10 as stated: every URL that differs from a discovered URL only by a
\* trailing slash, tracking parameters or parameter order has the same
\* visited-set key, and no two such URLs are both discovered in a crawl.
C10_AllVariantsShareKey ==
  /\ \A i \in DOMAIN discoveredUrls : \A v \in Urls :
       Variant(discoveredUrls[i], v) =>
         normalizeUrl(v) = normalizeUrl(discoveredUrls[i])
  /\ \A i, j \in DOMAIN discoveredUrls :
       i # j => ~Variant(discoveredUrls[i], discoveredUrls[j])

\* C10 amended: the same for URLs that differ by one trailing slash added to
\* the root path or to a path not ending in a slash, by tracking parameters,
\* or by a reordering that keeps the relative order of parameters of one name.
C10_KeptVariantsShareKey ==
  /\ \A i \in DOMAIN discoveredUrls : \A v \in Urls :
       VariantKept(discoveredUrls[i], v) =>
         normalizeUrl(v) = normalizeUrl(discoveredUrls[i])
  /\ \A i, j \in DOMAIN discoveredUrls :
       i # j => ~VariantKept(discoveredUrls[i], discoveredUrls[j])

\* a variant of an already discovered URL is waiting in the queue
C10_Witness ==
  \E i \in DOMAIN discoveredUrls : \E k \in DOMAIN queue :
    /\ VariantKept(discoveredUrls[i], queue[k].url)
    /\ discoveredUrls[i].query # queue[k].url.query

\* C11: after reset() the crawler is in the state of a freshly constructed
\* one: visited and disallowedPaths are empty and no item is pending, so that
\* during every crawl, the first or a later one, the visited set holds exactly
\* the keys of the URLs discovered by this crawl and the disallowed paths are
\* exactly those of the robots.txt fetched by this crawl.
C11_ResetRestoresFresh ==
  /\ bfsPc = "idle" => (visited = {} /\ disallowedPaths = {} /\ cur = NoItem)
  /\ bfsPc \in {"loop", "loading", "returned"} =>
       /\ visited = {normalizeUrl(discoveredUrls[i]) : i \in DOMAIN discoveredUrls}
       /\ \E r \in RobotsResponses :
            disallowedPaths = IF options.respectRobotsTxt THEN fetchRobotsTxt(r)
                              ELSE {}

\* a second crawl, after a reset, that discovered pages under robots.txt rules
C11_Witness ==
  /\ crawls = 2
  /\ bfsPc = "returned"
  /\ Len(discoveredUrls) >= 2
  /\ disallowedPaths # {}

\* C24: during one crawl a URL is queued at most once: the queue never holds
\* two items with the same normalization key, nor an item whose key was
\* already taken from the queue and visited, so the queue is never longer
\* than the number of distinct keys.
C24_EnqueuedAtMostOnce ==
  bfsPc \in {"loop", "loading"} =>
    /\ \A i, j \in DOMAIN queue :
         i # j => normalizeUrl(queue[i].url) # normalizeUrl(queue[j].url)
    /\ \A i \in DOMAIN queue : normalizeUrl(queue[i].url) \notin visited
    /\ Len(queue) <= Cardinality({normalizeUrl(u) : u \in Urls})

\* C29: a crawl loads at most maxPages pages and, when every page load
\* returns or throws, it returns.
C29_CrawlTerminates ==
  /\ [](Len(loaded) <= options.maxPages)
  /\ (bfsPc = "loop") ~> (bfsPc = "returned")

\* a crawl of a cyclic link graph has returned: a page that links back to an
\* ancestor was loaded
C29_Witness ==
  /\ bfsPc = "returned"
  /\ \E i \in DOMAIN loaded : loaded[i].ok /\ loaded[i].depth >= 1
  /\ \E i \in DOMAIN queue : normalizeUrl(queue[i].url) \in visited

\* agent === '*' || agent.includes('bot')
AgentMatches(l) == l.value = <<"*">> \/ Includes(l.value, <<"bot">>)

\* the Disallow paths of the groups of a robots.txt body that have a matching
\* User-agent line; a group is a run of User-agent lines and the rules after it
RECURSIVE GroupDisallows(_, _, _)
GroupDisallows(lines, afterAgent, matched) ==
  IF lines = <<>> THEN {}
  ELSE LET l == Head(lines)
       IN IF l.field = "user-agent"
          THEN GroupDisallows(Tail(lines), TRUE,
                              (afterAgent /\ matched) \/ AgentMatches(l))
          ELSE (IF matched /\ l.field = "disallow" /\ l.value # <<>>
                THEN {l.value} ELSE {})
               \cup GroupDisallows(Tail(lines), FALSE, matched)

\* C31: the disallowed set of a crawl holds the Disallow paths of exactly the
\* robots.txt groups with a User-agent line that is '*' or names a bot,
\* whatever the order of the User-agent lines of a group.
C31_DisallowOfMatchingGroups ==
  (bfsPc # "idle" /\ options.respectRobotsTxt /\ robotsTxt # NotOk) =>
    disallowedPaths = GroupDisallows(robotsTxt, FALSE, FALSE)

\* a step in which the load of the current page fails
LoadFailed ==
  /\ bfsPc = "loading"
  /\ Len(loaded') = Len(loaded) + 1
  /\ ~loaded'[Len(loaded')].ok

\* C32: when loading a page or extracting its links throws, crawl() goes on
\* with the loop: the page stays in the discovered list and in the visited set,
\* the queue gets no new item and keeps the items it had.
C32_LoadFailureSkipsLinksOnly ==
  [][LoadFailed =>
       /\ bfsPc' = "loop"
       /\ queue' = queue
       /\ discoveredUrls' = discoveredUrls
       /\ visited' = visited
       /\ \E i \in 1..Len(discoveredUrls') : discoveredUrls'[i] = cur.url
       /\ normalizeUrl(cur.url) \in visited']_vars

\* a page failed to load and a URL queued at that time was discovered after it
C32_Witness ==
  \E i \in 1..Len(loaded) : \E j, k \in 1..Len(discoveredUrls) :
    /\ ~loaded[i].ok
    /\ discoveredUrls[j] = loaded[i].url
    /\ j < k
    /\ bfsPc = "returned"

\* C39: at every step of the crawl loop the depths of the queued items do not
\* decrease from head to tail, head and tail differ by at most 1, and no depth
\* exceeds maxDepth, so the check 'depth > maxDepth' at dequeue time never
\* discards an item.
C39_QueueDepthsOrdered ==
  bfsPc \in {"loop", "loading"} =>
    /\ \A i, k \in DOMAIN queue : i < k => queue[i].depth <= queue[k].depth
    /\ queue # <<>> => queue[Len(queue)].depth - Head(queue).depth <= 1
    /\ \A i \in DOMAIN queue : ~BeyondMaxDepth(queue[i])
    /\ bfsPc = "loading" =>
         \A i \in DOMAIN queue :
           cur.depth <= queue[i].depth /\ queue[i].depth <= cur.depth + 1

\* the queue holds items of two depths, the deeper ones at maxDepth
C39_Witness ==
  /\ bfsPc = "loop"
  /\ Len(queue) >= 3
  /\ Head(queue).depth = 1
  /\ queue[Len(queue)].depth = 2
  /\ options.maxDepth = 2

----------------------------------------------------------------------------
(* Properties of sitemap discovery, checked under SpecSitemap *)

\* C12: discover() always returns a list that is not empty, and when no
\* sitemap yielded any URL, the robots.txt-declared one included, the list is
\* exactly [baseUrl].
C12_DiscoverNeverEmpty ==
  smPc = "done" =>
    /\ smResult # <<>>
    /\ smSource = "fallback" => smResult = <<baseUrl>>

\* C13: with maxUrls = N >= 1, discover() never returns more than N URLs.
C13_AtMostMaxUrls ==
  (smPc = "done" /\ smOptions.maxUrls >= 1) => Len(smResult) <= smOptions.maxUrls

\* a sitemap that held more URLs than maxUrls was cut to maxUrls
C13_Witness ==
  /\ smPc = "done"
  /\ smSource = "sitemap"
  /\ smOptions.maxUrls >= 2
  /\ Len(smResult) = smOptions.maxUrls
  /\ Len(smRaw) > smOptions.maxUrls

\* C14: the list returned by a sitemap crawl is the filtered list,
\* deduplicated and then truncated to maxUrls: first occurrences in order,
\* exactly min(maxUrls, number of distinct filtered URLs) of them.
C14_DedupThenTruncate ==
  (smPc = "done" /\ smSource # "fallback" /\ smOptions.maxUrls >= 1) =>
    /\ smResult = Slice(NewSet(SmFiltered(smRaw)), smOptions.maxUrls)
    /\ Len(smResult) = Min(smOptions.maxUrls,
                           Cardinality({smRaw[i] : i \in {j \in DOMAIN smRaw :
                                                           SmFiltered(<<smRaw[j]>>) # <<>>}}))

\* the configured filters: the hostname is in allowDomains when that list is
\* not empty, and no deny pattern matches
SmPassesFilters(u) ==
  /\ Len(smOptions.allowDomains) > 0 => SmInAllowDomains(u)
  /\ ~SmMatchesDeny(u)

\* C25: every URL that discover() returns satisfies the configured filters,
\* whether the list comes from a common location, from the sitemap declared
\* in robots.txt or from the fallback.
C25_ResultPassesFilters ==
  smPc = "done" => \A i \in DOMAIN smResult : SmPassesFilters(smResult[i])

\* C26: in the loop over the children of a sitemap index the children are
\* fetched one after the other in document order; a loop that still has a
\* child to fetch has accumulated fewer URLs than the limit (maxUrls, 100 when
\* it is not set), a loop ends before its last child only with the limit
\* reached, and the accumulated list never exceeds the limit.
C26_IndexStopsAtMaxUrls ==
  /\ [](/\ \A i \in DOMAIN smStack :
            /\ smStack[i].k <= smStack[i].n
            /\ Len(smStack[i].urls) < MaxUrlsOrDefault
        /\ Len(smIndexEnd.urls) <= MaxUrlsOrDefault
        /\ smIndexEnd.k < smIndexEnd.n => Len(smIndexEnd.urls) = MaxUrlsOrDefault)
  /\ [][\A i \in DOMAIN smStack \cap DOMAIN smStack' :
          /\ smStack'[i].n = smStack[i].n
          /\ smStack'[i].k \in {smStack[i].k, smStack[i].k + 1}]_vars

\* an index loop has stopped before its last child, with maxUrls URLs
C26_Witness ==
  /\ smPc = "done"
  /\ smOptions.maxUrls >= 1
  /\ smIndexEnd.k < smIndexEnd.n
  /\ Len(smIndexEnd.urls) = smOptions.maxUrls

\* C27: a fetch follows at most one redirect: no second redirect is followed.
C27_AtMostOneRedirect == smRedirects <= 1

\* C28: discover() returns on every site, also on one with an index that
\* lists itself: no sitemap index is parsed again while its own loop over its
\* children is pending (from there on the same fetches would repeat, each
\* nested in the one before, and discover() would not return).
C28_NoIndexInsideItself ==
  \A i \in 1..(Len(smStack) - 1) : smStack[i].self # smStack[i].k

----------------------------------------------------------------------------
(* Properties of job generation, checked under SpecPlan *)

\* C15: the job list is the cross product of the deduplicated URL list and
\* the viewports, URL-major: with U URLs and V viewports it has U * V entries
\* and entry k (from 0) is (url[k div V], viewport[k mod V]); the URL list
\* holds no URL twice.
C15_JobsUrlMajor ==
  planPc = "generated" =>
    LET V == Viewports(input)
    IN /\ \A i, j \in DOMAIN planUrls : i # j => planUrls[i] # planUrls[j]
       /\ Len(jobList) = Len(planUrls) * Len(V)
       /\ \A k \in 0..(Len(jobList) - 1) :
            /\ jobList[k + 1].url = planUrls[(k \div Len(V)) + 1]
            /\ jobList[k + 1].viewport = V[(k % Len(V)) + 1]

\* jobs for two URLs and three viewports, from start URLs with a duplicate
C15_Witness ==
  /\ planPc = "generated"
  /\ Len(input.startUrls) > Len(planUrls)
  /\ Len(planUrls) = 2
  /\ Len(jobList) = 6

\* C23: malformed custom rules (a rules file that cannot be read or is not
\* JSON, or a ruleset without a rules list) make the run fail before any
\* crawling: no URL is discovered, no job is generated or run, and the failure
\* does not show up as ScanErrors of the jobs.
C23_MalformedRulesFailBeforeCrawl ==
  Malformed(input.customSpecs) =>
    /\ planPc \notin {"discovered", "generated", "analyzed"}
    /\ planUrls = <<>>
    /\ jobList = <<>>
    /\ planErrors = <<>>

----------------------------------------------------------------------------
(* Properties of the cluster engine, checked under SpecDedup *)

Range(q) == {q[i] : i \in DOMAIN q}

\* the segments of a pathname
RECURSIVE Segments(_)
Segments(path) ==
  IF path = <<>> THEN <<>>
  ELSE LET n == LeadingRun(Tail(path), Range(path) \ {"/"})
       IN <<SubSeq(path, 2, n + 1)>> \o Segments(SubSeq(path, n + 2, Len(path)))

\* the same segments, but for segments that are numbers in both paths
PathsDifferOnlyNumeric(path1, path2) ==
  LET a == Segments(path1)
      b == Segments(path2)
  IN /\ Len(a) = Len(b)
     /\ \A i \in DOMAIN a : a[i] = b[i] \/ (AllDigits(a[i]) /\ AllDigits(b[i]))

\* the same pieces, but for the index of a positional pseudo-class
SelectorsDifferOnlyIndex(sel1, sel2) ==
  /\ Len(sel1) = Len(sel2)
  /\ \A i \in DOMAIN sel1 :
       \/ sel1[i] = sel2[i]
       \/ /\ sel1[i].kind = sel2[i].kind
          /\ sel1[i].kind \in {"nth-child", "nth-of-type"}
          /\ AllDigits(sel1[i].text)
          /\ AllDigits(sel2[i].text)

\* two findings as C16 describes them
SimilarPair(f, g) ==
  /\ f.ruleId # ""
  /\ f.ruleId = g.ruleId
  /\ f.viewport = g.viewport
  /\ f.selectors # <<>>
  /\ g.selectors # <<>>
  /\ SelectorsDifferOnlyIndex(f.selectors[1], g.selectors[1])
  /\ f.pageUrl.host = g.pageUrl.host
  /\ PathsDifferOnlyNumeric(f.pageUrl.pathname, g.pageUrl.pathname)

ClustersOf(f) == {k \in DOMAIN clusters :
                    generateSignature(clusters[k]) = generateSignature(f)}

\* C16: two findings with the same ruleId and viewport, first selectors that
\* differ only in the index of :nth-child / :nth-of-type, and pageUrls on one
\* host whose paths differ only in a numeric segment have the same signature
\* and are merged into one cluster; when they are the whole input, the output
\* is that one cluster with occurrenceCount 2.
C16_SimilarPairMerged ==
  ddPc = "deduplicated" =>
    \A i, j \in DOMAIN findings :
      (i < j /\ SimilarPair(findings[i], findings[j])) =>
        /\ generateSignature(findings[i]) = generateSignature(findings[j])
        /\ Cardinality(ClustersOf(findings[i])) = 1
        /\ \A k \in ClustersOf(findings[i]) : clusters[k].occurrenceCount >= 2
        /\ Len(findings) = 2 =>
             (Len(clusters) = 1 /\ clusters[1].occurrenceCount = 2)

\* the input is two findings that differ in the index and in the numeric segment
C16_Witness ==
  /\ ddPc = "deduplicated"
  /\ Len(findings) = 2
  /\ SimilarPair(findings[1], findings[2])
  /\ findings[1].selectors # findings[2].selectors
  /\ findings[1].pageUrl # findings[2].pageUrl

Members(c) == {i \in DOMAIN findings :
                 generateSignature(findings[i]) = generateSignature(c)}

\* what every cluster satisfies: its count is the number of findings with its
\* signature, its pages are their pageUrls, each once
ClusterCountsAndPages ==
  \A k \in DOMAIN clusters :
    LET c == clusters[k]
    IN /\ c.occurrenceCount = Cardinality(Members(c))
       /\ Range(c.affectedPages) = {findings[i].pageUrl : i \in Members(c)}
       /\ \A m, n \in DOMAIN c.affectedPages :
            m # n => c.affectedPages[m] # c.affectedPages[n]
       /\ 1 <= Len(c.affectedPages)
       /\ Len(c.affectedPages) <= c.occurrenceCount

\* two findings on one element of one page, at different viewports
SamePageAcrossViewports(f, g) ==
  /\ f.pageUrl = g.pageUrl
  /\ f.viewport # g.viewport
  /\ RuleOrTool(f) = RuleOrTool(g)
  /\ NormalizedSelector(f) = NormalizedSelector(g)

\* C17 as stated: occurrenceCount is the number of findings sharing the
\* signature, affectedPages the duplicate-free set of their pageUrls,
\* 1 <= |affectedPages| <= occurrenceCount, and strictly smaller when the
\* same page recurs across viewports.
C17_SmallerAcrossViewports ==
  ddPc = "deduplicated" =>
    /\ ClusterCountsAndPages
    /\ \A i, j \in DOMAIN findings :
         SamePageAcrossViewports(findings[i], findings[j]) =>
           \A k \in ClustersOf(findings[i]) :
             Len(clusters[k].affectedPages) < clusters[k].occurrenceCount

\* C17 amended: the same counts and pages; |affectedPages| is strictly smaller
\* than occurrenceCount exactly when two findings of the cluster have the
\* same pageUrl, and the findings of a cluster all have one viewport, so a
\* page that recurs across viewports is counted in separate clusters.
C17_SmallerWhenPageRecurs ==
  ddPc = "deduplicated" =>
    /\ ClusterCountsAndPages
    /\ \A k \in DOMAIN clusters :
         LET c == clusters[k]
         IN /\ Len(c.affectedPages) < c.occurrenceCount
               <=> \E i, j \in Members(c) :
                     i # j /\ findings[i].pageUrl = findings[j].pageUrl
            /\ \A i \in Members(c) : findings[i].viewport = c.viewport

\* one cluster holds a page twice, and the page also recurs at another viewport
C17_Witness ==
  /\ ddPc = "deduplicated"
  /\ \E k \in DOMAIN clusters :
       Len(clusters[k].affectedPages) < clusters[k].occurrenceCount
  /\ \E i, j \in DOMAIN findings :
       SamePageAcrossViewports(findings[i], findings[j])

\* C18: in the list returned by deduplicateFindings every adjacent pair (a, b)
\* has rank(a) < rank(b), or rank(a) = rank(b) and
\* a.occurrenceCount >= b.occurrenceCount, for the ranks critical < high <
\* medium < low < info.
C18_SortedBySeverityThenCount ==
  ddPc = "deduplicated" =>
    \A k \in 1..(Len(clusters) - 1) :
      LET a == clusters[k]
          b == clusters[k + 1]
      IN \/ severityOrder(a.severity) < severityOrder(b.severity)
         \/ /\ severityOrder(a.severity) = severityOrder(b.severity)
            /\ a.occurrenceCount >= b.occurrenceCount

\* two clusters of one severity: the larger one, met second in the input,
\* comes first in the output
C18_Witness ==
  /\ ddPc = "deduplicated"
  /\ Len(clusters) = 2
  /\ clusters[1].severity = clusters[2].severity
  /\ clusters[1].occurrenceCount > clusters[2].occurrenceCount
  /\ generateSignature(findings[1]) = generateSignature(clusters[2])

FirstMember(c) == findings[CHOOSE i \in Members(c) : \A j \in Members(c) : i <= j]

\* C19: every cluster carries the fields of the first finding with its
\* signature in input order, its representativeUrl is that finding's pageUrl
\* and its id is "clustered-" followed by that finding's id.
C19_RepresentativeIsFirst ==
  ddPc = "deduplicated" =>
    \A k \in DOMAIN clusters :
      LET c == clusters[k]
          first == FirstMember(c)
      IN /\ \A field \in DOMAIN first \ {"id"} : c[field] = first[field]
         /\ c.representativeUrl = first.pageUrl
         /\ c.id = <<"clustered-">> \o first.id

\* a cluster whose later member differs from the first in severity and page
C19_Witness ==
  /\ ddPc = "deduplicated"
  /\ \E k \in DOMAIN clusters : \E i \in Members(clusters[k]) :
       /\ findings[i].severity # clusters[k].severity
       /\ findings[i].pageUrl # clusters[k].representativeUrl

\* a ranks strictly before b in the order of getTopFindings
RanksBefore(a, b) ==
  \/ severityOrder(a.severity) < severityOrder(b.severity)
  \/ /\ severityOrder(a.severity) = severityOrder(b.severity)
     /\ confidenceOrder(a.confidence) < confidenceOrder(b.confidence)

\* a call of getTopFindings on given with limit n leaves the state as primed
TopCall(given) ==
  /\ Len(top') = Min(limit', Len(given))
  /\ \A k \in 1..(Len(top') - 1) : ~RanksBefore(top'[k + 1], top'[k])
  /\ \A x \in Range(top') : Count(top', x) <= Count(given, x)
  /\ \A x \in Range(given) :
       Count(top', x) < Count(given, x) => \A t \in Range(top') : ~RanksBefore(x, t)
  /\ findings' = findings
  /\ clusters' = clusters

\* C20: getTopFindings(findings, N) returns min(N, |findings|) of the given
\* findings, ordered by severity rank and then by confidence rank certain <
\* likely < needs_review; no finding left out ranks strictly before one that
\* is returned; the list it is given is left as it was.
C20_TopFindings ==
  [][ /\ (ddPc = "start" /\ ddPc' = "top") => TopCall(findings)
      /\ (ddPc = "deduplicated" /\ ddPc' = "scan-top") => TopCall(clusters) ]_vars

\* the top two of three findings, the last of the input first, ahead of a
\* finding of the same severity and a weaker confidence
C20_Witness ==
  /\ ddPc = "top"
  /\ limit = 2
  /\ Len(findings) = 3
  /\ top[1] = findings[3]
  /\ top[1].severity = top[2].severity
  /\ top[1].confidence # top[2].confidence

\* C30: within one job at most 10 element screenshots are attempted, no
\* finding with a selector that is left out has a strictly higher severity
\* than one that is attempted, and when at most 10 findings have selectors
\* all of them are attempted.
C30_ShotsForHighestSeverity ==
  ddPc = "element-shots" =>
    LET withSelectors == SelectSeq(findings, LAMBDA f : Len(f.selectors) > 0)
    IN /\ Len(attempted) <= ElementShotLimit
       /\ \A x \in Range(withSelectors) :
            Count(attempted, x) < Count(withSelectors, x) =>
              \A a \in Range(attempted) :
                ~(severityOrder(x.severity) < severityOrder(a.severity))
       /\ Len(withSelectors) <= ElementShotLimit =>
            \A x \in Range(withSelectors) :
              Count(attempted, x) = Count(withSelectors, x)


\* sum of occurrenceCount over the clusters cs
RECURSIVE SumOccurrences(_)
SumOccurrences(cs) ==
  IF cs = <<>> THEN 0 ELSE Head(cs).occurrenceCount + SumOccurrences(Tail(cs))

\* every input finding is counted in exactly one cluster, the occurrence
\* counts add up to the number of findings, no signature has two clusters
PartitionsInput ==
  ddPc = "deduplicated" =>
    /\ \A i \in DOMAIN findings :
         /\ Cardinality(ClustersOf(findings[i])) = 1
         /\ \A k \in ClustersOf(findings[i]) :
              clusters[k].occurrenceCount = Cardinality(Members(clusters[k]))
    /\ SumOccurrences(clusters) = Len(findings)
    /\ \A k, m \in DOMAIN clusters :
         generateSignature(clusters[k]) = generateSignature(clusters[m]) => k = m

\* C37: deduplicateFindings partitions its input: every input finding belongs
\* to exactly one cluster, the occurrence counts of the clusters add up to the
\* number of input findings, no two clusters have the same signature, and the
\* input findings are left as they were.
C37_ClustersPartitionInput ==
  /\ []PartitionsInput
  /\ [][ddPc' = "deduplicated" => findings' = findings]_vars

\* an input of three findings was reduced to two clusters
C37_Witness ==
  /\ ddPc = "deduplicated"
  /\ Len(findings) = 3
  /\ Len(clusters) = 2

----------------------------------------------------------------------------
(* Properties of the screenshot captures, checked under SpecEvidence *)

\* C34: no two screenshot captures of the jobs that share the collector, full
\* page or element, of one job or of two, are given the same file name, so
\* that no written file is another capture's file.
C34_FileNamesUnique ==
  /\ \A a, b \in issued : a.name = b.name => a = b
  /\ \A a \in written : \A b \in issued : a.name = b.name => a = b

\* two jobs have written screenshots, their captures interleaved, and two
\* captures of one job differ in nothing but the index of the file name
C34_Witness ==
  /\ \E a, b \in written : a.job # b.job
  /\ \E a, b, c \in issued :
       /\ a.job = c.job /\ a.job # b.job
       /\ SubSeq(a.name, 1, PadWidth) = DigitsOf(0) \o DigitsOf(0) \o DigitsOf(0) \o DigitsOf(1)
       /\ SubSeq(b.name, 1, PadWidth) = DigitsOf(0) \o DigitsOf(0) \o DigitsOf(0) \o DigitsOf(2)
       /\ SubSeq(c.name, 1, PadWidth) = DigitsOf(0) \o DigitsOf(0) \o DigitsOf(0) \o DigitsOf(3)
  /\ \E a, b \in issued :
       /\ a # b
       /\ SubSeq(a.name, PadWidth + 1, Len(a.name))
            = SubSeq(b.name, PadWidth + 1, Len(b.name))


----------------------------------------------------------------------------
(* Properties of scanWebsite in crawl mode bfs, checked under SpecWebsite *)

\* C35: when the scan input sets concurrency = c (c >= 1), the batch size of
\* the scheduler is c: no batch holds more than c jobs, so that at most c
\* browsing contexts are open at any time.
C35_BatchSizeIsInputConcurrency ==
  (swPc = "generated" /\ swInput.concurrency # NotGiven) =>
    /\ batchSize = swInput.concurrency[1]
    /\ Len(swBatch) <= swInput.concurrency[1]

\* C36: in bfs crawl mode the crawler runs with exactly the maxDepth and the
\* maxPages of the scan input whenever they are given, the value 0 included:
\* with maxDepth = 0 only start URLs are discovered and no page is loaded for
\* link extraction.
C36_CrawlerGetsGivenLimits ==
  swPc # "start" =>
    /\ swInput.maxDepth # NotGiven => options.maxDepth = swInput.maxDepth[1]
    /\ swInput.maxPages # NotGiven => options.maxPages = swInput.maxPages[1]
    /\ swInput.maxDepth = Given(0) =>
         /\ loaded = <<>>
         /\ \A i \in DOMAIN discoveredUrls :
              \E k \in DOMAIN swInput.startUrls :
                discoveredUrls[i] = swInput.startUrls[k]

\* C38: with several start URLs, crawled one after the other with a reset in
\* between, the URL list handed to the job matrix holds no two URLs with the
\* same normalization key.
C38_NoTwoSpellingsScanned ==
  swPc \in {"discovered", "generated"} =>
    \A i, k \in DOMAIN swUrls :
      normalizeUrl(swUrls[i]) = normalizeUrl(swUrls[k]) => i = k

====
